---- MODULE Spec2Model ----
(***************************************************************************)
(* Test vector session engine of assert_tv: the ordered entry model, the   *)
(* positional matching of process_next_entry, the session registry with    *)
(* its scoped handle, and the persistence of the recorded document.        *)
(***************************************************************************)
EXTENDS Integers, Sequences, FiniteSets, TLC

\* ---------------------------------------------------------------- bounds
\* Largest number of entries one session records.
MaxEntries == 2

\* ------------------------------------------------------------ Option type
None == <<>>
Some(x) == <<x>>
IsSome(o) == o # <<>>
Unwrap(o) == o[1]

\* ------------------------------------------------------ anyhow::Result<T>
Ok(v) == [ok |-> TRUE, val |-> v, err |-> "none"]
Err(e) == [ok |-> FALSE, val |-> None, err |-> e]

\* ------------------------------------------------------------- data model
TestVectorEntryType == {"Const", "Output"}
\* The two modes process_next_entry and finalize_tv_case match on.
TestMode == {"Init", "Check"}
TestVectorFileFormat == {"Json", "Yaml"}
Paths == {"manual_tv"}

\* serde_json::Value: the values the model's serializers produce are JSON
\* strings.
JsonString(s) == [type |-> "String", str |-> s]
\* The other variants of serde_json::Value; the members of an object are a
\* function from member names to values (serde_json::Map is ordered by key).
JsonNull == [type |-> "Null"]
JsonBool(b) == [type |-> "Bool", bool |-> b]
JsonNumber(n) == [type |-> "Number", num |-> n]
JsonArray(items) == [type |-> "Array", items |-> items]
JsonObject(members) == [type |-> "Object", members |-> members]

\* The fields of SomeTestFields (TestValue descriptors): `a` is a u64 with a
\* custom string codec, `b` is a String with the serde codec.
Fields == {"a", "b"}
\* A field the derive macro builds from serialize_with alone: `c` is a u64
\* written by custom_serialize_fn and read by the default deserializer.
DerivedFields == {"c"}
\* A field whose serialize_with function rejects some values: `s` is a u64
\* written as a number by checked_serialize_fn and read by the default
\* deserializer.
CheckedFields == {"s"}
FieldName(f) == IF f = "a" THEN Some("a") ELSE None
FieldDescription(f) == IF f = "a" THEN Some("a is a u64") ELSE None
FieldCodeLocation(f) ==
    IF f = "a" THEN "test_manual_set.rs:28"
    ELSE IF f = "b" THEN "test_manual_set.rs:44"
    ELSE "derive.rs:140"

\* Observed (originator) values of each field.
U64Values == {42, 99}
StringValues == {"abc"}
Originators(f) == IF f = "b" THEN StringValues ELSE U64Values

\* custom_serialize_fn: u64 -> Value::String(value.to_string())
custom_serialize_fn(v) == Ok(JsonString(ToString(v)))

\* custom_deserialize_fn: Value -> String -> u64::from_str
custom_deserialize_fn(value) ==
    IF value.type # "String" THEN Err("invalid type")
    ELSE IF \E n \in U64Values : ToString(n) = value.str
         THEN Ok(CHOOSE n \in U64Values : ToString(n) = value.str)
         ELSE Err("invalid digit")

\* A serializer (Fn(&O) -> anyhow::Result<Value>) that fails on a value.
checked_serialize_fn(v) ==
    IF v = 99 THEN Err("value out of range") ELSE Ok(JsonNumber(v))

\* serializer of field b: serde_json::to_value(&String)
string_serialize_fn(v) == Ok(JsonString(v))

\* deserializer of field b: serde_json::from_value::<String>
string_deserialize_fn(value) ==
    IF value.type # "String" THEN Err("invalid type") ELSE Ok(value.str)

\* default deserializer of a u64 field: serde_json::from_value::<u64>
u64_deserialize_fn(value) ==
    IF value.type # "Number" THEN Err("invalid type") ELSE Ok(value.num)

Serialize(f, v) ==
    IF f = "b" THEN string_serialize_fn(v)
    ELSE IF f = "s" THEN checked_serialize_fn(v)
    ELSE custom_serialize_fn(v)
Deserialize(f, value) ==
    IF f = "a" THEN custom_deserialize_fn(value)
    ELSE IF f = "b" THEN string_deserialize_fn(value)
    ELSE u64_deserialize_fn(value)

\* struct TestVectorEntry
TestVectorEntry(entry_type, description, name, value, code_location) ==
    [entry_type |-> entry_type, description |-> description, name |-> name,
     value |-> value, code_location |-> code_location]

\* struct TestVectorData { entries }: empty document
EmptyData == << >>

\* ------------------------------------------------------------ persistence
\* Content of the file system at a path.
NoFile == [kind |-> "missing"]
GarbageFile == [kind |-> "garbage"]

\* The text of a document is a tree of tokens. A scalar is written plain or
\* quoted: to_writer_pretty of serde_json quotes every string, to_writer of
\* serde_yaml quotes a string only when the plain text would be read back as
\* something else (null, a boolean, a number, the empty scalar).
Plain(text) == [style |-> "plain", text |-> text]
Quoted(text) == [style |-> "quoted", text |-> text]

\* The numbers whose decimal text the readers know.
Numerals == U64Values \cup {0}
IsNumeral(text) == \E n \in Numerals : ToString(n) = text
ParseNumeral(text) == CHOOSE n \in Numerals : ToString(n) = text
NullTexts == {"null", "~", ""}
BoolTexts == {"true", "false"}
ReadAsOther(text) == text \in NullTexts \/ text \in BoolTexts \/ IsNumeral(text)

WriteString(file_format, str) ==
    IF file_format = "Json" \/ ReadAsOther(str) THEN Quoted(str) ELSE Plain(str)

\* impl Serialize for serde_json::Value
RECURSIVE WriteValue(_, _)
WriteValue(file_format, value) ==
    IF value.type = "Null" THEN Plain("null")
    ELSE IF value.type = "Bool" THEN Plain(IF value.bool THEN "true" ELSE "false")
    ELSE IF value.type = "Number" THEN Plain(ToString(value.num))
    ELSE IF value.type = "String" THEN WriteString(file_format, value.str)
    ELSE IF value.type = "Array"
    THEN [style |-> "seq",
          items |-> [j \in 1..Len(value.items) |-> WriteValue(file_format, value.items[j])]]
    ELSE [style |-> "map",
          members |-> [k \in DOMAIN value.members |-> WriteValue(file_format, value.members[k])]]

\* impl Deserialize for serde_json::Value (deserialize_any): a quoted scalar
\* is a string, a plain one is what its text resolves to.
RECURSIVE ReadValue(_)
ReadValue(token) ==
    IF token.style = "quoted" THEN JsonString(token.text)
    ELSE IF token.style = "plain"
    THEN IF token.text \in NullTexts THEN JsonNull
         ELSE IF token.text \in BoolTexts THEN JsonBool(token.text = "true")
         ELSE IF IsNumeral(token.text) THEN JsonNumber(ParseNumeral(token.text))
         ELSE JsonString(token.text)
    ELSE IF token.style = "seq"
    THEN JsonArray([j \in 1..Len(token.items) |-> ReadValue(token.items[j])])
    ELSE JsonObject([k \in DOMAIN token.members |-> ReadValue(token.members[k])])

\* #[derive(Serialize, Deserialize)] for TestVectorEntry: the fields in
\* declaration order, an absent Option<String> written as null and read back
\* from a plain null.
SerializeOption(file_format, o) ==
    IF IsSome(o) THEN WriteString(file_format, Unwrap(o)) ELSE Plain("null")
DeserializeOption(token) ==
    IF token.style = "plain" /\ token.text \in NullTexts THEN None ELSE Some(token.text)
SerializeEntry(file_format, e) ==
    <<WriteString(file_format, e.entry_type), SerializeOption(file_format, e.description),
      SerializeOption(file_format, e.name), WriteValue(file_format, e.value),
      SerializeOption(file_format, e.code_location)>>
DeserializeEntry(t) ==
    [entry_type |-> t[1].text, description |-> DeserializeOption(t[2]),
     name |-> DeserializeOption(t[3]), value |-> ReadValue(t[4]),
     code_location |-> DeserializeOption(t[5])]

\* The text of a document in one format.
DocumentFile(file_format, entries) ==
    [kind |-> "document", format |-> file_format,
     text |-> [i \in 1..Len(entries) |-> SerializeEntry(file_format, entries[i])]]

\* serde_json::from_reader / serde_yaml::from_reader on a text written in
\* text_format: a JSON text is also a YAML document, not the reverse.
Parses(text_format, file_format) ==
    text_format = file_format \/ (text_format = "Json" /\ file_format = "Yaml")

\* TestVectorData::load_from_file
load_from_file(fs, tv_file_path, file_format) ==
    LET f == fs[tv_file_path] IN
    IF f.kind = "missing" THEN Err("Failed to open test vector file")
    ELSE IF f.kind = "garbage" THEN Err("Failed to parse test vector file")
    ELSE IF ~Parses(f.format, file_format) THEN Err("Failed to parse test vector file")
    ELSE Ok([i \in 1..Len(f.text) |-> DeserializeEntry(f.text[i])])

\* TestVectorData::store_to_file: the file system after the write. (The
\* variant has the arms of its match on file_format swapped.)
store_to_file_SwappedArms(fs, entries, tv_file_path, file_format) ==
    [fs EXCEPT ![tv_file_path] =
        DocumentFile(IF file_format = "Json" THEN "Yaml" ELSE "Json", entries)]

store_to_file(fs, entries, tv_file_path, file_format) ==
    [fs EXCEPT ![tv_file_path] = DocumentFile(file_format, entries)]

\* Path::is_file
is_file(fs, tv_file_path) == fs[tv_file_path].kind # "missing"

\* ------------------------------------------------------------------ state
VARIABLES
    feature_tls,      \* cfg(feature = "tls"): the registry discipline of the build
    fs,               \* the file system: content at each path
    TEST_VEC_ENV,     \* the registry slot: Option<TestVecEnv>
    GLOBAL_ENV_LOCK,  \* TRUE while a handle holds the coarse lock (global build)
    poisoned,         \* the std Mutexes a panicking holder has poisoned
    guards,           \* number of live TlsEnvGuard handles
    pc,               \* "running", "unwinding" (a call panicked), "blocked", "aborted"
    last,             \* the last call, with its arguments and how it ended
    hist,             \* history of the session last installed in the slot
    writer,           \* observations of the session that wrote the file
    \* concurrent test threads (the test harness runs tests in parallel)
    thread_pc,        \* where each thread is: "idle", "active" (holds a handle),
                      \* "lock_wait" (in initialize_with), "drop_wait" (in drop)
    thread_slot,      \* thread_local! TEST_VEC_ENV of each thread (tls build)
    mutex_owner,      \* the thread holding the slot mutex (global build)
    lock_owner,       \* the thread whose handle holds GLOBAL_ENV_LOCK
    slot_owner,       \* the thread whose open wrote the process-wide slot last
    thread_last,      \* the last call of a thread
    replay,           \* the script of a test run twice in Check mode, and its first run
    test_case,        \* the test function generated by #[test_vec_case] and its run
    document,         \* a document handed to the codec, and whether it was stored
    sidecars          \* the sidecar files of offloaded values, by path and position

thread_vars == <<thread_pc, thread_slot, mutex_owner, lock_owner, slot_owner, thread_last>>

\* What the callers of the engine keep: untouched by the engine's functions.
caller_vars == <<test_case, document, sidecars>>

vars == <<feature_tls, fs, TEST_VEC_ENV, GLOBAL_ENV_LOCK, poisoned, guards, pc, last, hist, writer,
          thread_pc, thread_slot, mutex_owner, lock_owner, slot_owner, thread_last, replay,
          test_case, document, sidecars>>

\* Test threads, and the value each one observes.
Threads == {"t1", "t2"}
NoThread == "none"
ThreadValue(t) == IF t = "t1" THEN 42 ELSE 99

\* struct TestVecEnv
TestVecEnv(tv_file_path, file_format, loaded_tv_data, recorded_tv_data, test_mode) ==
    [tv_file_path |-> tv_file_path, file_format |-> file_format,
     loaded_tv_data |-> loaded_tv_data, recorded_tv_data |-> recorded_tv_data,
     test_mode |-> test_mode]

NoHist == [test_mode |-> "none", fs0 |-> << >>, obs |-> << >>, results |-> << >>,
           released |-> FALSE]

\* No scripted test: the calls come in any order.
NoReplay == [run |-> 0, script |-> << >>, fs0 |-> << >>, first |-> << >>]

\* No test has run by macro: the calls come from a hand-written test.
NoCase == [stage |-> "none"]

\* No document was handed to the codec directly.
NoDocument == [stage |-> "none"]

\* No value was offloaded: there is no sidecar file.
NoSidecars == << >>

\* Nothing is open: the slot is empty, the locks are free, no call was made.
InitIdle(tls) ==
    /\ feature_tls = tls
    /\ TEST_VEC_ENV = None
    /\ GLOBAL_ENV_LOCK = FALSE
    /\ poisoned = {}
    /\ guards = 0
    /\ pc = "running"
    /\ last = [op |-> "none"]
    /\ hist = NoHist
    /\ writer = << >>
    /\ thread_pc = [t \in Threads |-> "idle"]
    /\ thread_slot = [t \in Threads |-> None]
    /\ mutex_owner = NoThread
    /\ lock_owner = NoThread
    /\ slot_owner = NoThread
    /\ thread_last = [op |-> "none"]

InitRegistry(tls) ==
    /\ InitIdle(tls)
    /\ fs \in [Paths -> {NoFile, GarbageFile}]
    /\ replay = NoReplay
    /\ test_case = NoCase
    /\ document = NoDocument
    /\ sidecars = NoSidecars

\* The build with the thread-local registry (feature "tls").
Init == InitRegistry(TRUE)

\* The build with the process-wide registry and the coarse lock.
InitGlobal == InitRegistry(FALSE)

\* A panic unwinds the test function: a live handle is dropped on the way,
\* otherwise the panic reaches the test harness and the next test runs.
PanicPc == IF guards > 0 THEN "unwinding" ELSE "running"

\* Mutex::lock().expect(..) on the slot mutex of the global build panics when
\* the mutex is poisoned; the thread-local slot has no mutex.
SlotLockPanics == ~feature_tls /\ "TEST_VEC_ENV" \in poisoned

\* ------------------------------------------------ initialize_tv_case_from_file
\* The loaded document of a new session: empty in Init mode, the parsed file
\* in Check mode. (The variants: a Check session whose file does not load
\* starts from the empty document; an Init session loads the file too.)
LoadForMode_EmptyOnError(files, tv_file_path, file_format, test_mode) ==
    IF test_mode = "Init" THEN Ok(EmptyData)
    ELSE LET r == load_from_file(files, tv_file_path, file_format) IN
         IF r.ok THEN r ELSE Ok(EmptyData)

LoadForMode_AlwaysLoads(files, tv_file_path, file_format, test_mode) ==
    LET r == load_from_file(files, tv_file_path, file_format) IN
    IF r.ok THEN r
    ELSE Err("Error loading test vector. You may need to switch to init mode")

LoadForMode(files, tv_file_path, file_format, test_mode) ==
    IF test_mode = "Init" THEN Ok(EmptyData)
    ELSE LET r == load_from_file(files, tv_file_path, file_format) IN
         IF r.ok THEN r
         ELSE Err("Error loading test vector. You may need to switch to init mode")

\* tls_storage::TestVecEnv::initialize_with: the slot is replaced first, the
\* previous content decides the result. (The variant does not look at the
\* previous content.)
initialize_with_tls_NoCheck(previous, tv_env) ==
    [slot |-> Some(tv_env), result |-> Ok("TlsEnvGuard")]

initialize_with_tls(previous, tv_env) ==
    [slot |-> Some(tv_env),
     result |-> IF IsSome(previous)
                THEN Err("Initialized a new test vector while a previous test vector is already initialized")
                ELSE Ok("TlsEnvGuard")]

HistOfInstall(test_mode) ==
    [test_mode |-> test_mode, fs0 |-> IF test_mode = "Check" THEN fs ELSE << >>,
     obs |-> << >>, results |-> << >>, released |-> FALSE]

initialize_tv_case_from_file(tv_file_path, file_format, test_mode) ==
    /\ pc = "running"
    /\ LET loaded == LoadForMode(fs, tv_file_path, file_format, test_mode)
           call == [op |-> "initialize_tv_case_from_file", test_mode |-> test_mode,
                    tv_file_path |-> tv_file_path, file_format |-> file_format,
                    was_active |-> IsSome(TEST_VEC_ENV), held |-> guards,
                    how |-> "returned", result |-> None]
       IN
       IF ~loaded.ok
       THEN /\ last' = [call EXCEPT !.result = loaded]
            /\ UNCHANGED <<TEST_VEC_ENV, GLOBAL_ENV_LOCK, poisoned, guards, pc, hist>>
       ELSE LET tv_env == TestVecEnv(tv_file_path, file_format, loaded.val, EmptyData, test_mode) IN
            IF feature_tls
            THEN LET r == initialize_with_tls(TEST_VEC_ENV, tv_env) IN
                 /\ TEST_VEC_ENV' = r.slot
                 /\ guards' = IF r.result.ok THEN guards + 1 ELSE guards
                 /\ last' = [call EXCEPT !.result = r.result]
                 /\ hist' = HistOfInstall(test_mode)
                 /\ UNCHANGED <<GLOBAL_ENV_LOCK, poisoned, pc>>
            ELSE \* storage_global::TestVecEnv::initialize_with: the slot is
                 \* replaced under the slot mutex, then GLOBAL_ENV_LOCK is
                 \* taken with the slot mutex still held.
                 IF SlotLockPanics
                 THEN /\ last' = [call EXCEPT !.how = "panicked", !.result = Err("Global poisoned")]
                      /\ pc' = PanicPc
                      /\ UNCHANGED <<TEST_VEC_ENV, GLOBAL_ENV_LOCK, poisoned, guards, hist>>
                 ELSE /\ TEST_VEC_ENV' = Some(tv_env)
                      /\ hist' = HistOfInstall(test_mode)
                      /\ IF GLOBAL_ENV_LOCK
                         THEN \* the handle of this thread holds the lock: a std
                              \* Mutex locked again by its holder never returns
                              /\ pc' = "blocked"
                              /\ last' = [call EXCEPT !.how = "blocked"]
                              /\ UNCHANGED <<GLOBAL_ENV_LOCK, poisoned, guards>>
                         ELSE IF "GLOBAL_ENV_LOCK" \in poisoned
                         THEN \* expect() panics with the slot mutex held
                              /\ poisoned' = poisoned \cup {"TEST_VEC_ENV"}
                              /\ pc' = PanicPc
                              /\ last' = [call EXCEPT !.how = "panicked",
                                                      !.result = Err("Global env lock poisoned")]
                              /\ UNCHANGED <<GLOBAL_ENV_LOCK, guards>>
                         ELSE /\ GLOBAL_ENV_LOCK' = TRUE
                              /\ guards' = guards + 1
                              /\ last' = [call EXCEPT !.result = Ok("TlsEnvGuard")]
                              /\ UNCHANGED <<poisoned, pc>>
    /\ UNCHANGED <<feature_tls, fs, writer>>
    /\ UNCHANGED <<thread_vars, replay, caller_vars>>

\* ------------------------------------------------------ TlsEnvGuard::drop
\* Both builds end by emptying the slot.
drop_slot(slot) == None

\* The scripted test run twice: when the handle of a run is dropped the
\* results of its calls are kept for the next run.
ReplayAfterDrop ==
    IF replay.run = 0 THEN replay
    ELSE [replay EXCEPT !.run = @ + 1, !.first = hist.results]

\* The handle is dropped when its scope ends, or while a panic of the test
\* body unwinds it. The global build first gives the coarse lock back (a
\* MutexGuard dropped by a panicking thread poisons its mutex), then locks the
\* slot mutex.
drop_guard(unwinding) ==
    /\ guards > 0
    /\ pc = "running" \/ (pc = "unwinding" /\ unwinding)
    /\ guards' = guards - 1
    /\ last' = [op |-> "drop", was_active |-> IsSome(TEST_VEC_ENV), unwinding |-> unwinding]
    /\ hist' = [hist EXCEPT !.released = TRUE, !.obs = << >>, !.results = << >>]
    /\ IF feature_tls
       THEN /\ TEST_VEC_ENV' = drop_slot(TEST_VEC_ENV)
            /\ pc' = "running"
            /\ UNCHANGED <<GLOBAL_ENV_LOCK, poisoned>>
       ELSE /\ GLOBAL_ENV_LOCK' = FALSE
            /\ poisoned' = IF unwinding THEN poisoned \cup {"GLOBAL_ENV_LOCK"} ELSE poisoned
            /\ IF SlotLockPanics
               THEN \* expect("Global poisoned") panics inside drop: a second
                    \* panic while unwinding aborts the process
                    /\ pc' = IF unwinding THEN "aborted" ELSE PanicPc
                    /\ UNCHANGED TEST_VEC_ENV
               ELSE /\ TEST_VEC_ENV' = drop_slot(TEST_VEC_ENV)
                    /\ pc' = "running"
    /\ UNCHANGED <<feature_tls, fs, writer>>
    /\ replay' = ReplayAfterDrop
    /\ UNCHANGED <<thread_vars, caller_vars>>

\* ------------------------------------------------------------ with_global
\* TestVecEnv::with_global hands the session of the slot to its closure:
\* as_mut().ok_or_else(..) is an error when the slot is empty. (The variant
\* puts an empty Init session into an empty slot.)
with_global_InsertsDefault(slot) ==
    IF IsSome(slot) THEN Ok(Unwrap(slot))
    ELSE Ok([tv_file_path |-> "manual_tv", file_format |-> "Json",
             loaded_tv_data |-> << >>, recorded_tv_data |-> << >>, test_mode |-> "Init"])

with_global(slot) ==
    IF IsSome(slot) THEN Ok(Unwrap(slot)) ELSE Err("TestEnv not initialized.")

\* ------------------------------------------------------ process_next_entry
\* Vec::get with a zero-based index (the variant wraps around the end)
Get_Wrapping(entries, index) ==
    IF Len(entries) = 0 THEN None ELSE Some(entries[(index % Len(entries)) + 1])

Get(entries, index) == IF index < Len(entries) THEN Some(entries[index + 1]) ELSE None

\* Result<T>::map(Some)
MapSome(r) == IF r.ok THEN Ok(Some(r.val)) ELSE r

\* The TestMode::Init arm: nothing is compared, a Const is deserialized right
\* after it was serialized. (The variant gives nothing back when the value
\* does not deserialize.)
InitModeResult_SwallowsError(observed_entry, f) ==
    IF observed_entry.entry_type = "Const"
    THEN LET r == Deserialize(f, observed_entry.value) IN
         IF r.ok THEN Ok(Some(r.val)) ELSE Ok(None)
    ELSE Ok(None)

InitModeResult(observed_entry, f) ==
    IF observed_entry.entry_type = "Const"
    THEN LET r == Deserialize(f, observed_entry.value) IN
         IF r.ok THEN Ok(Some(r.val))
         ELSE Err("Failed to deserialize constant value right after serializing it")
    ELSE Ok(None)

\* Variants of the Check arm with one slip each: the Const is deserialized
\* from the observed entry; the Output value is not compared; the name of a
\* Const is not compared; a missing loaded entry is treated as in Init mode.
CheckModeResult_InjectObserved(loaded_entry, observed_entry, f) ==
    IF ~IsSome(loaded_entry)
    THEN Err("Observed value does not exist in loaded test vector")
    ELSE LET l == Unwrap(loaded_entry) IN
         IF l.name # observed_entry.name
         THEN Err("Observed value does not match the loaded test vectors name")
         ELSE IF l.entry_type # observed_entry.entry_type
         THEN Err("Observed value does not match the loaded test vectors type")
         ELSE IF l.entry_type = "Output" /\ l.value # observed_entry.value
         THEN Err("Observed value does not match the loaded test vectors value")
         ELSE IF l.entry_type = "Const"
         THEN MapSome(Deserialize(f, observed_entry.value))
         ELSE Ok(None)

CheckModeResult_NoValueCheck(loaded_entry, observed_entry, f) ==
    IF ~IsSome(loaded_entry)
    THEN Err("Observed value does not exist in loaded test vector")
    ELSE LET l == Unwrap(loaded_entry) IN
         IF l.name # observed_entry.name
         THEN Err("Observed value does not match the loaded test vectors name")
         ELSE IF l.entry_type # observed_entry.entry_type
         THEN Err("Observed value does not match the loaded test vectors type")
         ELSE IF l.entry_type = "Const"
         THEN MapSome(Deserialize(f, l.value))
         ELSE Ok(None)

CheckModeResult_ConstNameUnchecked(loaded_entry, observed_entry, f) ==
    IF ~IsSome(loaded_entry)
    THEN Err("Observed value does not exist in loaded test vector")
    ELSE LET l == Unwrap(loaded_entry) IN
         IF observed_entry.entry_type = "Output" /\ l.name # observed_entry.name
         THEN Err("Observed value does not match the loaded test vectors name")
         ELSE IF l.entry_type # observed_entry.entry_type
         THEN Err("Observed value does not match the loaded test vectors type")
         ELSE IF l.entry_type = "Output" /\ l.value # observed_entry.value
         THEN Err("Observed value does not match the loaded test vectors value")
         ELSE IF l.entry_type = "Const"
         THEN MapSome(Deserialize(f, l.value))
         ELSE Ok(None)

CheckModeResult_MissingPasses(loaded_entry, observed_entry, f) ==
    IF ~IsSome(loaded_entry)
    THEN InitModeResult(observed_entry, f)
    ELSE LET l == Unwrap(loaded_entry) IN
         IF l.name # observed_entry.name
         THEN Err("Observed value does not match the loaded test vectors name")
         ELSE IF l.entry_type # observed_entry.entry_type
         THEN Err("Observed value does not match the loaded test vectors type")
         ELSE IF l.entry_type = "Output" /\ l.value # observed_entry.value
         THEN Err("Observed value does not match the loaded test vectors value")
         ELSE IF l.entry_type = "Const"
         THEN MapSome(Deserialize(f, l.value))
         ELSE Ok(None)

\* (Another variant: a loaded Const that does not deserialize injects nothing.)
CheckModeResult_SwallowsError(loaded_entry, observed_entry, f) ==
    IF ~IsSome(loaded_entry)
    THEN Err("Observed value does not exist in loaded test vector")
    ELSE LET l == Unwrap(loaded_entry) IN
         IF l.name # observed_entry.name
         THEN Err("Observed value does not match the loaded test vectors name")
         ELSE IF l.entry_type # observed_entry.entry_type
         THEN Err("Observed value does not match the loaded test vectors type")
         ELSE IF l.entry_type = "Output" /\ l.value # observed_entry.value
         THEN Err("Observed value does not match the loaded test vectors value")
         ELSE IF l.entry_type = "Const"
         THEN LET r == Deserialize(f, l.value) IN
              IF r.ok THEN Ok(Some(r.val)) ELSE Ok(None)
         ELSE Ok(None)

\* (Another variant: an Output is compared as a whole entry, with the derived
\* PartialEq of TestVectorEntry.)
CheckModeResult_ComparesEntry(loaded_entry, observed_entry, f) ==
    IF ~IsSome(loaded_entry)
    THEN Err("Observed value does not exist in loaded test vector")
    ELSE LET l == Unwrap(loaded_entry) IN
         IF l.name # observed_entry.name
         THEN Err("Observed value does not match the loaded test vectors name")
         ELSE IF l.entry_type # observed_entry.entry_type
         THEN Err("Observed value does not match the loaded test vectors type")
         ELSE IF l.entry_type = "Output" /\ l # observed_entry
         THEN Err("Observed value does not match the loaded test vectors value")
         ELSE IF l.entry_type = "Const"
         THEN MapSome(Deserialize(f, l.value))
         ELSE Ok(None)

\* The TestMode::Check arm.
CheckModeResult(loaded_entry, observed_entry, f) ==
    IF ~IsSome(loaded_entry)
    THEN Err("Observed value does not exist in loaded test vector")
    ELSE LET l == Unwrap(loaded_entry) IN
         IF l.name # observed_entry.name
         THEN Err("Observed value does not match the loaded test vectors name")
         ELSE IF l.entry_type # observed_entry.entry_type
         THEN Err("Observed value does not match the loaded test vectors type")
         ELSE IF l.entry_type = "Output" /\ l.value # observed_entry.value
         THEN Err("Observed value does not match the loaded test vectors value")
         ELSE IF l.entry_type = "Const"
         THEN MapSome(Deserialize(f, l.value))
         ELSE Ok(None)

\* match tv_env.test_mode of process_next_entry. (The variant takes the Check
\* arm in both modes.)
ModeResult_AlwaysChecks(tv_env, loaded_entry, observed_entry, f) ==
    CheckModeResult(loaded_entry, observed_entry, f)

ModeResult(tv_env, loaded_entry, observed_entry, f) ==
    IF tv_env.test_mode = "Init"
    THEN InitModeResult(observed_entry, f)
    ELSE CheckModeResult(loaded_entry, observed_entry, f)

\* The session after the closure of process_next_entry: the observed entry is
\* pushed before the mode is looked at. (The variant pushes it only when the
\* call passes.)
PushRecorded_OnlyOnSuccess(tv_env, observed_entry, result) ==
    IF result.ok THEN [tv_env EXCEPT !.recorded_tv_data = Append(@, observed_entry)]
    ELSE tv_env

\* (Another variant: the loaded document is a queue the call takes its entry
\* from.)
PushRecorded_ConsumesLoaded(tv_env, observed_entry, result) ==
    [tv_env EXCEPT !.recorded_tv_data = Append(@, observed_entry),
                   !.loaded_tv_data = IF @ = << >> THEN @ ELSE Tail(@)]

PushRecorded(tv_env, observed_entry, result) ==
    [tv_env EXCEPT !.recorded_tv_data = Append(@, observed_entry)]

\* The session after V::serialize(observed_value)? returned early: the slot
\* was not looked at. (The variant records the entry with a null value.)
SessionAfterSerializerError_RecordsNull(slot, entry_type, f) ==
    IF IsSome(slot)
    THEN Some(PushRecorded(Unwrap(slot),
                           TestVectorEntry(entry_type, FieldDescription(f), FieldName(f),
                                           JsonNull, Some(FieldCodeLocation(f))),
                           Err("value out of range")))
    ELSE slot

SessionAfterSerializerError(slot, entry_type, f) == slot

process_next_entry(entry_type, f, observed_value) ==
    /\ pc = "running"
    /\ IsSome(TEST_VEC_ENV) => Len(Unwrap(TEST_VEC_ENV).recorded_tv_data) < MaxEntries
    /\ LET value == Serialize(f, observed_value)
           call == [op |-> "process_next_entry", entry_type |-> entry_type, field |-> f,
                    observed_value |-> observed_value, was_active |-> TRUE,
                    how |-> "returned"]
           miss == [op |-> "process_next_entry", was_active |-> FALSE, how |-> "returned"]
       IN
       IF ~value.ok
       THEN /\ last' = miss @@ [entry_type |-> entry_type, field |-> f,
                                observed_value |-> observed_value, result |-> value]
            /\ TEST_VEC_ENV' = SessionAfterSerializerError(TEST_VEC_ENV, entry_type, f)
            /\ UNCHANGED <<pc, hist>>
       ELSE IF SlotLockPanics
       THEN /\ last' = [miss EXCEPT !.how = "panicked"] @@ [result |-> Err("Global poisoned")]
            /\ pc' = PanicPc
            /\ UNCHANGED <<TEST_VEC_ENV, hist>>
       ELSE IF ~with_global(TEST_VEC_ENV).ok
       THEN /\ last' = miss @@ [result |-> with_global(TEST_VEC_ENV)]
            /\ UNCHANGED <<TEST_VEC_ENV, pc, hist>>
       ELSE LET tv_env == with_global(TEST_VEC_ENV).val
                observed_entry == TestVectorEntry(entry_type, FieldDescription(f), FieldName(f),
                                                  value.val, Some(FieldCodeLocation(f)))
                entry_index == Len(tv_env.recorded_tv_data)
                loaded_entry == Get(tv_env.loaded_tv_data, entry_index)
                result == ModeResult(tv_env, loaded_entry, observed_entry, f)
            IN
            /\ TEST_VEC_ENV' = Some(PushRecorded(tv_env, observed_entry, result))
            /\ last' = call @@ [test_mode |-> tv_env.test_mode, entry_index |-> entry_index,
                                loaded_entry |-> loaded_entry, observed_entry |-> observed_entry,
                                result |-> result]
            /\ hist' = [hist EXCEPT !.obs = Append(@, [entry_type |-> entry_type, field |-> f,
                                                        value |-> observed_value]),
                                    !.results = Append(@, result)]
            /\ UNCHANGED pc
    /\ UNCHANGED <<feature_tls, fs, GLOBAL_ENV_LOCK, poisoned, guards, writer>>
    /\ UNCHANGED <<thread_vars, replay, caller_vars>>

\* -------------------------------------------------------- finalize_tv_case
\* update_required of the Init arm (the variant forgets the file test)
update_required_NoFileTest(tv_env, files) ==
    tv_env.loaded_tv_data # tv_env.recorded_tv_data

update_required(tv_env, files) ==
    tv_env.loaded_tv_data # tv_env.recorded_tv_data \/ ~is_file(files, tv_env.tv_file_path)

\* The file system after the closure of finalize_tv_case. (The variant
\* updates the file in Check mode too.)
FinalizeFs_WritesInCheck(tv_env, files) ==
    IF update_required(tv_env, files)
    THEN store_to_file(files, tv_env.recorded_tv_data, tv_env.tv_file_path, tv_env.file_format)
    ELSE files

FinalizeFs(tv_env, files) ==
    IF tv_env.test_mode = "Check" THEN files
    ELSE IF update_required(tv_env, files)
         THEN store_to_file(files, tv_env.recorded_tv_data, tv_env.tv_file_path, tv_env.file_format)
         ELSE files

finalize_tv_case ==
    /\ pc = "running"
    /\ IF SlotLockPanics
       THEN /\ last' = [op |-> "finalize_tv_case", was_active |-> FALSE, how |-> "panicked",
                        result |-> Err("Global poisoned")]
            /\ pc' = PanicPc
            /\ UNCHANGED <<fs, hist, writer>>
       ELSE IF ~with_global(TEST_VEC_ENV).ok
       THEN /\ last' = [op |-> "finalize_tv_case", was_active |-> FALSE, how |-> "returned",
                        result |-> with_global(TEST_VEC_ENV)]
            /\ UNCHANGED <<fs, pc, hist, writer>>
       ELSE LET tv_env == with_global(TEST_VEC_ENV).val
                stored == tv_env.test_mode = "Init" /\ update_required(tv_env, fs)
            IN
            /\ fs' = FinalizeFs(tv_env, fs)
            /\ last' = [op |-> "finalize_tv_case", was_active |-> TRUE, how |-> "returned",
                        test_mode |-> tv_env.test_mode, stored |-> stored,
                        result |-> Ok(None)]
            /\ writer' = IF stored THEN hist.obs ELSE writer
            /\ UNCHANGED <<pc, hist>>
    /\ UNCHANGED <<feature_tls, TEST_VEC_ENV, GLOBAL_ENV_LOCK, poisoned, guards>>
    /\ UNCHANGED <<thread_vars, replay, caller_vars>>

\* ----------------------------------------------------------- specification
Next ==
    \/ \E p \in Paths, ff \in TestVectorFileFormat, m \in TestMode :
          initialize_tv_case_from_file(p, ff, m)
    \/ \E t \in TestVectorEntryType, f \in Fields :
          \E v \in Originators(f) : process_next_entry(t, f, v)
    \/ finalize_tv_case
    \/ \E unwinding \in BOOLEAN : drop_guard(unwinding)

Spec == Init /\ [][Next]_vars

SpecGlobal == InitGlobal /\ [][Next]_vars

\* The test body observes the derived field.
NextCodec ==
    \/ \E p \in Paths, ff \in TestVectorFileFormat, m \in TestMode :
          initialize_tv_case_from_file(p, ff, m)
    \/ \E t \in TestVectorEntryType, f \in DerivedFields :
          \E v \in Originators(f) : process_next_entry(t, f, v)
    \/ finalize_tv_case
    \/ \E unwinding \in BOOLEAN : drop_guard(unwinding)

SpecCodec == Init /\ [][NextCodec]_vars

\* ------------------------------------------------------- a test run twice
\* The entry a call records for an observation: kind, metadata of the field
\* and the serialized value.
EntryOfObs(o) ==
    TestVectorEntry(o.entry_type, FieldDescription(o.field), FieldName(o.field),
                    Serialize(o.field, o.value).val, Some(FieldCodeLocation(o.field)))
EntriesOfObs(obs) == [j \in 1..Len(obs) |-> EntryOfObs(obs[j])]

\* The calls a test body can make: kind, field, and which of the values of
\* the field is observed; a script is a sequence of calls.
RECURSIVE Pick(_, _)
Pick(S, n) ==
    LET x == CHOOSE y \in S : TRUE
    IN IF n = 1 THEN x ELSE Pick(S \ {x}, n - 1)
Calls ==
    UNION {[entry_type : TestVectorEntryType, field : {f},
            nth : 1..Cardinality(Originators(f))] : f \in Fields}
Scripts == UNION {[1..n -> Calls] : n \in 0..MaxEntries}
ObservationOf(c) ==
    [entry_type |-> c.entry_type, field |-> c.field,
     value |-> Pick(Originators(c.field), c.nth)]
ObservationsOf(script) == [j \in 1..Len(script) |-> ObservationOf(script[j])]

\* The file holds the recording of an earlier Init run; the test body makes
\* the calls of its script, in Check mode, in two successive runs.
InitReplay ==
    /\ InitIdle(TRUE)
    /\ \E recording \in Scripts :
          fs = [p \in Paths |-> DocumentFile("Json", EntriesOfObs(ObservationsOf(recording)))]
    /\ \E script \in Scripts :
          replay = [run |-> 1, script |-> script, fs0 |-> fs, first |-> << >>]
    /\ test_case = NoCase
    /\ document = NoDocument
    /\ sidecars = NoSidecars

\* The test function: open in Check mode, the calls of the script whatever
\* they return, finalize_tv_case, end of scope.
NextReplay ==
    \/ /\ replay.run \in {1, 2}
       /\ ~IsSome(TEST_VEC_ENV)
       /\ \E p \in Paths : initialize_tv_case_from_file(p, "Json", "Check")
    \/ /\ IsSome(TEST_VEC_ENV)
       /\ last.op # "finalize_tv_case"
       /\ Len(hist.obs) < Len(replay.script)
       /\ LET o == ObservationOf(replay.script[Len(hist.obs) + 1])
          IN process_next_entry(o.entry_type, o.field, o.value)
    \/ /\ IsSome(TEST_VEC_ENV)
       /\ last.op # "finalize_tv_case"
       /\ Len(hist.obs) = Len(replay.script)
       /\ finalize_tv_case
    \/ /\ last.op = "finalize_tv_case"
       /\ drop_guard(FALSE)

SpecReplay == InitReplay /\ [][NextReplay]_vars

\* --------------------------------- two runs that differ in their constants
\* The test observes field a alone; the constants it observes (random values)
\* differ from one run to the next, everything else is the same.
ScriptsOver(fields) ==
    UNION {[1..n -> {c \in Calls : c.field \in fields}] : n \in 0..MaxEntries}
SameButConsts(script, other) ==
    /\ Len(script) = Len(other)
    /\ \A j \in 1..Len(script) :
          /\ script[j].entry_type = other[j].entry_type
          /\ script[j].field = other[j].field
          /\ script[j].entry_type = "Output" => script[j].nth = other[j].nth

\* The calls of the current run of the test.
ScriptOfRun == IF replay.run = 1 THEN replay.script ELSE replay.other

InitConstVariation ==
    /\ InitIdle(TRUE)
    /\ \E recording \in ScriptsOver({"a"}) :
          fs = [p \in Paths |-> DocumentFile("Json", EntriesOfObs(ObservationsOf(recording)))]
    /\ \E script \in ScriptsOver({"a"}), other \in ScriptsOver({"a"}) :
          /\ SameButConsts(script, other)
          /\ replay = [run |-> 1, script |-> script, other |-> other, fs0 |-> fs,
                       first |-> << >>]
    /\ test_case = NoCase
    /\ document = NoDocument
    /\ sidecars = NoSidecars

\* The test function of NextReplay, with the calls of the current run.
NextConstVariation ==
    \/ /\ replay.run \in {1, 2}
       /\ ~IsSome(TEST_VEC_ENV)
       /\ \E p \in Paths : initialize_tv_case_from_file(p, "Json", "Check")
    \/ /\ IsSome(TEST_VEC_ENV)
       /\ last.op # "finalize_tv_case"
       /\ Len(hist.obs) < Len(ScriptOfRun)
       /\ LET o == ObservationOf(ScriptOfRun[Len(hist.obs) + 1])
          IN process_next_entry(o.entry_type, o.field, o.value)
    \/ /\ IsSome(TEST_VEC_ENV)
       /\ last.op # "finalize_tv_case"
       /\ Len(hist.obs) = Len(ScriptOfRun)
       /\ finalize_tv_case
    \/ /\ last.op = "finalize_tv_case"
       /\ drop_guard(FALSE)

SpecConstVariation == InitConstVariation /\ [][NextConstVariation]_vars

\* ------------------------------- a file recorded by an earlier revision
\* What changed in the test since the file was recorded: nothing, the
\* description of the field, or the line of the field descriptor (its code
\* location is format!("{}:{}", file!(), line!())).
Revisions == {"current", "description", "moved"}
EntryOfRevision(o, revision) ==
    LET e == EntryOfObs(o) IN
    IF revision = "description" THEN [e EXCEPT !.description = Some("a was a u32")]
    ELSE IF revision = "moved" THEN [e EXCEPT !.code_location = Some("test_manual_set.rs:27")]
    ELSE e

InitRevised ==
    /\ InitIdle(TRUE)
    /\ \E recording \in ScriptsOver({"a"}) :
          \E revisions \in [1..Len(recording) -> Revisions] :
             fs = [p \in Paths |->
                     DocumentFile("Json",
                                  [j \in 1..Len(recording) |->
                                     EntryOfRevision(ObservationOf(recording[j]), revisions[j])])]
    /\ replay = NoReplay
    /\ test_case = NoCase
    /\ document = NoDocument
    /\ sidecars = NoSidecars

\* Check runs of the current revision of the test against that file.
NextRevised ==
    \/ /\ ~IsSome(TEST_VEC_ENV)
       /\ \E p \in Paths : initialize_tv_case_from_file(p, "Json", "Check")
    \/ \E t \in TestVectorEntryType, v \in Originators("a") : process_next_entry(t, "a", v)
    \/ finalize_tv_case
    \/ drop_guard(FALSE)

SpecRevised == InitRevised /\ [][NextRevised]_vars

\* --------------------------------------------- a serializer that fails
\* A test whose body observes the checked field.
NextSerializer ==
    \/ \E p \in Paths, m \in TestMode : initialize_tv_case_from_file(p, "Json", m)
    \/ \E t \in TestVectorEntryType, f \in CheckedFields :
          \E v \in Originators(f) : process_next_entry(t, f, v)
    \/ finalize_tv_case
    \/ \E unwinding \in BOOLEAN : drop_guard(unwinding)

SpecSerializer == Init /\ [][NextSerializer]_vars

\* ------------------------------------------- a deserializer that panics
\* The closure of process_next_entry calls the deserializer for a Const: in
\* Init mode on the value just serialized, in Check mode on the loaded value
\* once the name and the kind have matched.
CallsDeserializer(tv_env, loaded_entry, observed_entry) ==
    IF tv_env.test_mode = "Init" THEN observed_entry.entry_type = "Const"
    ELSE /\ IsSome(loaded_entry)
         /\ Unwrap(loaded_entry).name = observed_entry.name
         /\ Unwrap(loaded_entry).entry_type = observed_entry.entry_type
         /\ Unwrap(loaded_entry).entry_type = "Const"

\* process_next_entry with a caller-supplied deserializer that panics: the
\* entry is already pushed, and the panic unwinds through with_global, whose
\* guard of the slot mutex (global build) is dropped by a panicking thread.
process_next_entry_deserializer_panics(entry_type, f, observed_value) ==
    /\ pc = "running"
    /\ ~SlotLockPanics
    /\ IsSome(TEST_VEC_ENV)
    /\ Len(Unwrap(TEST_VEC_ENV).recorded_tv_data) < MaxEntries
    /\ LET value == Serialize(f, observed_value)
           tv_env == Unwrap(TEST_VEC_ENV)
           observed_entry == TestVectorEntry(entry_type, FieldDescription(f), FieldName(f),
                                             value.val, Some(FieldCodeLocation(f)))
           entry_index == Len(tv_env.recorded_tv_data)
           loaded_entry == Get(tv_env.loaded_tv_data, entry_index)
       IN
       /\ value.ok
       /\ CallsDeserializer(tv_env, loaded_entry, observed_entry)
       /\ TEST_VEC_ENV' = Some(PushRecorded(tv_env, observed_entry, Err("panic")))
       /\ last' = [op |-> "process_next_entry", entry_type |-> entry_type, field |-> f,
                   observed_value |-> observed_value, was_active |-> TRUE,
                   how |-> "panicked", test_mode |-> tv_env.test_mode,
                   entry_index |-> entry_index, loaded_entry |-> loaded_entry,
                   observed_entry |-> observed_entry, result |-> Err("deserializer panicked")]
       /\ hist' = [hist EXCEPT !.obs = Append(@, [entry_type |-> entry_type, field |-> f,
                                                   value |-> observed_value]),
                               !.results = Append(@, Err("deserializer panicked"))]
    /\ poisoned' = IF feature_tls THEN poisoned ELSE poisoned \cup {"TEST_VEC_ENV"}
    /\ pc' = PanicPc
    /\ UNCHANGED <<feature_tls, fs, GLOBAL_ENV_LOCK, guards, writer>>
    /\ UNCHANGED <<thread_vars, replay, caller_vars>>

\* A test whose deserializer may panic; a panic unwinds the test function.
NextPanic ==
    \/ \E p \in Paths, m \in TestMode : initialize_tv_case_from_file(p, "Json", m)
    \/ \E t \in TestVectorEntryType, v \in Originators("a") : process_next_entry(t, "a", v)
    \/ \E t \in TestVectorEntryType, v \in Originators("a") :
          process_next_entry_deserializer_panics(t, "a", v)
    \/ finalize_tv_case
    \/ \E unwinding \in BOOLEAN : drop_guard(unwinding)

SpecPanicGlobal == InitGlobal /\ [][NextPanic]_vars

SpecPanicTls == Init /\ [][NextPanic]_vars

\* ---------------------------------- the test generated by #[test_vec_case]
\* What the engine's variables are for a caller's own step.
engine_vars == <<feature_tls, fs, TEST_VEC_ENV, GLOBAL_ENV_LOCK, poisoned, guards, pc, last,
                 hist, writer>>

\* The value of the environment variable TEST_MODE: None when it is not set.
EnvValues == {None, Some("init"), Some("record"), Some("check"), Some("Init"), Some("")}

\* TestMode::from_environment
from_environment(env) ==
    IF env = Some("init") THEN "Init"
    ELSE IF env = Some("record") THEN "Record"
    ELSE IF env = Some("check") THEN "Check"
    ELSE "Check"

\* The argument mode = "init" | "check" of the macro, None when it is left
\* out, and the test_mode expression the expansion passes to the open.
ModeArgs == {None, Some("init"), Some("check")}
ModeExpr(mode_arg, env) ==
    IF mode_arg = Some("init") THEN "Init"
    ELSE IF mode_arg = Some("check") THEN "Check"
    ELSE from_environment(env)

\* The attributes a user puts on the annotated function, and the attributes
\* of the function the expansion emits: quote! { #[test] fn #fn_name() .. }.
UserAttributes == {"should_panic", "ignore"}
GeneratedAttributes(item_attrs) == {"test"}

\* The test harness: an ignored test is not run, a should_panic test passes
\* iff it panics, any other test passes iff it does not.
TestOutcome(attrs, panicked) ==
    IF "ignore" \in attrs THEN "ignored"
    ELSE IF ("should_panic" \in attrs) = panicked THEN "passed"
    ELSE "failed"

\* The file of an earlier Init run of the body that observed 42 once.
RecordedOnce ==
    DocumentFile("Json", <<TestVectorEntry("Const", FieldDescription("a"), FieldName("a"),
                                           custom_serialize_fn(42).val,
                                           Some(FieldCodeLocation("a")))>>)

InitCase ==
    /\ InitIdle(TRUE)
    /\ fs \in [Paths -> {NoFile, RecordedOnce}]
    /\ replay = NoReplay
    /\ \E env \in EnvValues, mode_arg \in ModeArgs, attrs \in SUBSET UserAttributes,
          body \in {"returns", "panics"} :
          test_case = [stage |-> "start", env |-> env, mode_arg |-> mode_arg, attrs |-> attrs,
                       body |-> body, generated |-> {}, test_mode |-> "unset",
                       panicked |-> FALSE, outcome |-> "none"]
    /\ document = NoDocument
    /\ sidecars = NoSidecars

\* The harness looks at the generated function: it skips an ignored one,
\* otherwise the function starts by evaluating the test_mode expression.
case_start ==
    /\ test_case.stage = "start"
    /\ LET generated == GeneratedAttributes(test_case.attrs) IN
       test_case' =
          IF "ignore" \in generated
          THEN [test_case EXCEPT !.stage = "done", !.generated = generated,
                                 !.outcome = TestOutcome(generated, FALSE)]
          ELSE [test_case EXCEPT !.stage = "open", !.generated = generated,
                                 !.test_mode = ModeExpr(test_case.mode_arg, test_case.env)]
    /\ UNCHANGED <<engine_vars, thread_vars, replay, document, sidecars>>

\* initialize_tv_case_from_file(..).expect(..) has run: a failed open panics
\* with no handle alive, otherwise the body starts.
case_opened ==
    /\ test_case.stage = "open"
    /\ last.op = "initialize_tv_case_from_file"
    /\ test_case' =
          IF last.result.ok THEN [test_case EXCEPT !.stage = "body"]
          ELSE [test_case EXCEPT !.stage = "done", !.panicked = TRUE,
                                 !.outcome = TestOutcome(test_case.generated, TRUE)]
    /\ UNCHANGED <<engine_vars, thread_vars, replay, document, sidecars>>

\* (A wrapper that would catch the panic of the body and go on to
\* finalize_tv_case.)
case_body_end_FinalizesOnPanic ==
    /\ test_case.stage = "body"
    /\ test_case' = [test_case EXCEPT !.stage = "finalize"]
    /\ UNCHANGED <<engine_vars, thread_vars, replay, document, sidecars>>

\* The body ends: it panics when an observation failed (the macros call
\* expect on the result) or when the body itself panics.
case_body_end ==
    /\ test_case.stage = "body"
    /\ LET failed == last.op = "process_next_entry" /\ ~last.result.ok IN
       test_case' =
          IF failed \/ test_case.body = "panics"
          THEN [test_case EXCEPT !.stage = "unwind", !.panicked = TRUE]
          ELSE [test_case EXCEPT !.stage = "finalize"]
    /\ UNCHANGED <<engine_vars, thread_vars, replay, document, sidecars>>

\* The handle is gone: the harness counts the test.
case_end ==
    /\ test_case.stage \in {"finalize", "unwind"}
    /\ last.op = "drop"
    /\ LET panicked == test_case.panicked \/ last.unwinding IN
       test_case' = [test_case EXCEPT !.stage = "done", !.panicked = panicked,
                                      !.outcome = TestOutcome(test_case.generated, panicked)]
    /\ UNCHANGED <<engine_vars, thread_vars, replay, document, sidecars>>

\* The generated function: open, the body, finalize_tv_case, drop(_guard).
\* No arm of the engine takes a mode other than Init and Check.
NextCase ==
    \/ case_start
    \/ /\ test_case.stage = "open"
       /\ last.op = "none"
       /\ test_case.test_mode \in TestMode
       /\ \E p \in Paths : initialize_tv_case_from_file(p, "Json", test_case.test_mode)
    \/ case_opened
    \/ /\ test_case.stage = "body"
       /\ last.op = "process_next_entry" => last.result.ok
       /\ \E v \in Originators("a") : process_next_entry("Const", "a", v)
    \/ case_body_end
    \/ /\ test_case.stage = "finalize"
       /\ last.op # "finalize_tv_case"
       /\ last.op # "drop"
       /\ finalize_tv_case
    \/ /\ test_case.stage = "finalize"
       /\ last.op = "finalize_tv_case"
       /\ drop_guard(~last.result.ok)
    \/ /\ test_case.stage = "unwind"
       /\ last.op # "drop"
       /\ drop_guard(TRUE)
    \/ case_end

SpecCase == InitCase /\ [][NextCase]_vars

\* ------------------------------------------------- the trait TestVector
\* The session after a call on the disabled test vector: the bodies of
\* TestVectorNOP::expose_value, expose_mut_value and check_value make no call
\* into the engine. (The variant falls back to the default methods of the
\* trait, which record the observation.)
TestVectorNOP_session_Records(slot, entry_type, f, observed_value) ==
    IF IsSome(slot)
    THEN LET observed_entry == TestVectorEntry(entry_type, FieldDescription(f), FieldName(f),
                                               Serialize(f, observed_value).val,
                                               Some(FieldCodeLocation(f)))
         IN Some(PushRecorded(Unwrap(slot), observed_entry, Ok(None)))
    ELSE slot

TestVectorNOP_session(slot, entry_type, f, observed_value) == slot

\* TestVectorNOP::expose_value returns the value it was given.
TestVectorNOP_expose_value(f, observed_value) ==
    /\ pc = "running"
    /\ TEST_VEC_ENV' = TestVectorNOP_session(TEST_VEC_ENV, "Const", f, observed_value)
    /\ last' = [op |-> "TestVectorNOP::expose_value", field |-> f,
                observed_value |-> observed_value, was_active |-> IsSome(TEST_VEC_ENV),
                how |-> "returned", returned |-> observed_value]
    /\ UNCHANGED <<feature_tls, fs, GLOBAL_ENV_LOCK, poisoned, guards, pc, hist, writer>>
    /\ UNCHANGED <<thread_vars, replay, caller_vars>>

\* TestVectorNOP::expose_mut_value leaves the referenced value as it is.
TestVectorNOP_expose_mut_value(f, observed_value) ==
    /\ pc = "running"
    /\ TEST_VEC_ENV' = TestVectorNOP_session(TEST_VEC_ENV, "Const", f, observed_value)
    /\ last' = [op |-> "TestVectorNOP::expose_mut_value", field |-> f,
                observed_value |-> observed_value, was_active |-> IsSome(TEST_VEC_ENV),
                how |-> "returned", returned |-> observed_value]
    /\ UNCHANGED <<feature_tls, fs, GLOBAL_ENV_LOCK, poisoned, guards, pc, hist, writer>>
    /\ UNCHANGED <<thread_vars, replay, caller_vars>>

\* TestVectorNOP::check_value
TestVectorNOP_check_value(f, observed_value) ==
    /\ pc = "running"
    /\ TEST_VEC_ENV' = TestVectorNOP_session(TEST_VEC_ENV, "Output", f, observed_value)
    /\ last' = [op |-> "TestVectorNOP::check_value", field |-> f,
                observed_value |-> observed_value, was_active |-> IsSome(TEST_VEC_ENV),
                how |-> "returned", returned |-> observed_value]
    /\ UNCHANGED <<feature_tls, fs, GLOBAL_ENV_LOCK, poisoned, guards, pc, hist, writer>>
    /\ UNCHANGED <<thread_vars, replay, caller_vars>>

\* The default methods (TestVectorActive) call expect on the result of
\* process_next_entry: after a failed call the thread unwinds, dropping the
\* handle if one is alive.
ExpectUnwinds == guards > 0 /\ last.op = "process_next_entry" /\ ~last.result.ok

\* A component with both test vectors: the observations of field a go to
\* TestVectorActive or to TestVectorNOP.
NextSet ==
    \/ /\ ~ExpectUnwinds
       /\ \E p \in Paths, m \in TestMode : initialize_tv_case_from_file(p, "Json", m)
    \/ /\ ~ExpectUnwinds
       /\ \E t \in TestVectorEntryType, v \in Originators("a") : process_next_entry(t, "a", v)
    \/ /\ ~ExpectUnwinds
       /\ \E v \in Originators("a") : TestVectorNOP_expose_value("a", v)
    \/ /\ ~ExpectUnwinds
       /\ \E v \in Originators("a") : TestVectorNOP_expose_mut_value("a", v)
    \/ /\ ~ExpectUnwinds
       /\ \E v \in Originators("a") : TestVectorNOP_check_value("a", v)
    \/ /\ ~ExpectUnwinds
       /\ finalize_tv_case
    \/ \E unwinding \in BOOLEAN :
          /\ ExpectUnwinds => unwinding
          /\ drop_guard(unwinding)

SpecSet == Init /\ [][NextSet]_vars

\* ------------------------------------------------- the codec on its own
\* Largest number of entries of a document handed to the codec.
MaxDocument == 2

\* Structured values: null, a boolean, a number, strings (two of them read
\* as something else when written plain), an array and an object holding a
\* null.
StructuredValues ==
    {JsonNull, JsonBool(TRUE), JsonNumber(42), JsonString("abc"), JsonString("null"),
     JsonString("42"), JsonArray(<<JsonNull, JsonString("42")>>),
     JsonObject([k \in {"x"} |-> JsonNull])}

\* Entries of either kind whose optional fields are absent, present, or
\* present with a text that reads as null.
DocumentEntries ==
    {TestVectorEntry("Const", None, None, v, None) : v \in StructuredValues}
    \cup {TestVectorEntry("Output", Some("a is a u64"), Some("a"), v, Some("set.rs:10")) :
            v \in StructuredValues}
    \cup {TestVectorEntry("Const", None, Some("null"), v, Some("")) : v \in StructuredValues}
Documents == UNION {[1..n -> DocumentEntries] : n \in 0..MaxDocument}

InitDocument ==
    /\ InitIdle(TRUE)
    /\ fs = [p \in Paths |-> NoFile]
    /\ replay = NoReplay
    /\ test_case = NoCase
    /\ \E entries \in Documents :
          document = [stage |-> "new", entries |-> entries, file_format |-> "none"]
    /\ sidecars = NoSidecars

\* self.store_to_file(tv_file_path, file_format)
document_store_to_file(tv_file_path, file_format) ==
    /\ document.stage = "new"
    /\ fs' = store_to_file(fs, document.entries, tv_file_path, file_format)
    /\ document' = [document EXCEPT !.stage = "stored", !.file_format = file_format]
    /\ last' = [op |-> "store_to_file", tv_file_path |-> tv_file_path,
                file_format |-> file_format, result |-> Ok(None)]
    /\ UNCHANGED <<feature_tls, TEST_VEC_ENV, GLOBAL_ENV_LOCK, poisoned, guards, pc, hist,
                   writer>>
    /\ UNCHANGED <<thread_vars, replay, test_case, sidecars>>

\* TestVectorData::load_from_file(tv_file_path, file_format)
document_load_from_file(tv_file_path, file_format) ==
    /\ last' = [op |-> "load_from_file", tv_file_path |-> tv_file_path,
                file_format |-> file_format,
                result |-> load_from_file(fs, tv_file_path, file_format)]
    /\ UNCHANGED <<feature_tls, fs, TEST_VEC_ENV, GLOBAL_ENV_LOCK, poisoned, guards, pc, hist,
                   writer>>
    /\ UNCHANGED <<thread_vars, replay, caller_vars>>

NextDocument ==
    \/ \E p \in Paths, ff \in TestVectorFileFormat : document_store_to_file(p, ff)
    \/ \E p \in Paths, ff \in TestVectorFileFormat : document_load_from_file(p, ff)

SpecDocument == InitDocument /\ [][NextDocument]_vars

\* ------------------------------------------------------- the offload store
\* Entries flagged offload keep null in the main document and their value in
\* a compressed sidecar file of their own, named after the main file and the
\* position of the entry.
Positions == 0..(MaxEntries - 1)
Compress(text) == [kind |-> "compressed", payload |-> text]
Decompress(file) == file.payload

\* The main document on save: the value of a flagged entry is nulled out and
\* the flag is written with the entry.
MainDocumentFile(file_format, entries, flagged) ==
    [kind |-> "document", format |-> file_format,
     text |-> [i \in 1..Len(entries) |->
                 Append(SerializeEntry(file_format,
                                       IF i \in flagged
                                       THEN [entries[i] EXCEPT !.value = JsonNull]
                                       ELSE entries[i]),
                        Plain(IF i \in flagged THEN "true" ELSE "false"))]]

\* The sidecars on save: one is (re)written for every flagged entry of the
\* recorded document; its content is the serialized value, compressed.
SidecarsAfterSave(files, tv_file_path, entries, flagged) ==
    [q \in Paths \X Positions |->
        IF q[1] = tv_file_path /\ (q[2] + 1) \in flagged /\ q[2] < Len(entries)
        THEN Compress(WriteValue("Json", entries[q[2] + 1].value))
        ELSE files[q]]

\* The loaded document of a Check session: every flagged entry gets the
\* value of its sidecar, decompressed and parsed, before any comparison; a
\* missing sidecar is a LoadError. (The variant leaves the null of the main
\* document in place.)
ResolveOffloaded_KeepsNull(files, side, tv_file_path, file_format) ==
    load_from_file(files, tv_file_path, file_format)

ResolveOffloaded(files, side, tv_file_path, file_format) ==
    LET main == load_from_file(files, tv_file_path, file_format)
        text == files[tv_file_path].text
        IsFlagged(i) == text[i][6].text = "true"
    IN
    IF ~main.ok THEN main
    ELSE IF \E i \in 1..Len(text) : IsFlagged(i) /\ side[<<tv_file_path, i - 1>>].kind = "missing"
    THEN Err("Failed to open offloaded value")
    ELSE Ok([i \in 1..Len(text) |->
               IF IsFlagged(i)
               THEN [main.val[i] EXCEPT
                       !.value = ReadValue(Decompress(side[<<tv_file_path, i - 1>>]))]
               ELSE main.val[i]])

\* An Init session has recorded the entries of a script, any of them flagged.
InitOffload ==
    /\ InitIdle(TRUE)
    /\ fs = [p \in Paths |-> NoFile]
    /\ replay = NoReplay
    /\ test_case = NoCase
    /\ sidecars = [q \in Paths \X Positions |-> NoFile]
    /\ \E script \in Scripts, flagged \in SUBSET (1..MaxEntries) :
          /\ flagged \subseteq 1..Len(script)
          /\ document = [stage |-> "recorded", obs |-> ObservationsOf(script),
                         entries |-> EntriesOfObs(ObservationsOf(script)),
                         flagged |-> flagged, loaded |-> EmptyData, position |-> 0]

\* close of the Init session: the document and its sidecars are saved.
offload_close(tv_file_path) ==
    /\ document.stage = "recorded"
    /\ fs' = [fs EXCEPT ![tv_file_path] =
                 MainDocumentFile("Json", document.entries, document.flagged)]
    /\ sidecars' = SidecarsAfterSave(sidecars, tv_file_path, document.entries, document.flagged)
    /\ document' = [document EXCEPT !.stage = "closed"]
    /\ last' = [op |-> "close", tv_file_path |-> tv_file_path, result |-> Ok(None)]
    /\ UNCHANGED <<feature_tls, TEST_VEC_ENV, GLOBAL_ENV_LOCK, poisoned, guards, pc, hist,
                   writer>>
    /\ UNCHANGED <<thread_vars, replay, test_case>>

\* A sidecar file is removed between the two runs.
offload_sidecar_removed(tv_file_path, position) ==
    /\ document.stage = "closed"
    /\ sidecars[<<tv_file_path, position>>] # NoFile
    /\ sidecars' = [sidecars EXCEPT ![<<tv_file_path, position>>] = NoFile]
    /\ UNCHANGED <<engine_vars, thread_vars, replay, test_case, document>>

\* open of the same path in Check mode
offload_open(tv_file_path) ==
    /\ document.stage = "closed"
    /\ LET r == ResolveOffloaded(fs, sidecars, tv_file_path, "Json") IN
       /\ last' = [op |-> "open", tv_file_path |-> tv_file_path, result |-> r,
                   complete |-> \A i \in document.flagged :
                                   sidecars[<<tv_file_path, i - 1>>] # NoFile]
       /\ document' = IF r.ok THEN [document EXCEPT !.stage = "opened", !.loaded = r.val]
                      ELSE document
    /\ UNCHANGED <<feature_tls, fs, TEST_VEC_ENV, GLOBAL_ENV_LOCK, poisoned, guards, pc, hist,
                   writer>>
    /\ UNCHANGED <<thread_vars, replay, test_case, sidecars>>

\* An observation of the Check session is compared with the loaded entry of
\* its position, by the Check arm of process_next_entry.
offload_process(entry_type, f, observed_value) ==
    /\ document.stage = "opened"
    /\ document.position < MaxEntries
    /\ LET observed_entry == EntryOfObs([entry_type |-> entry_type, field |-> f,
                                         value |-> observed_value])
           loaded_entry == Get(document.loaded, document.position)
       IN last' = [op |-> "process", entry_index |-> document.position,
                   observed_entry |-> observed_entry,
                   result |-> CheckModeResult(loaded_entry, observed_entry, f)]
    /\ document' = [document EXCEPT !.position = @ + 1]
    /\ UNCHANGED <<feature_tls, fs, TEST_VEC_ENV, GLOBAL_ENV_LOCK, poisoned, guards, pc, hist,
                   writer>>
    /\ UNCHANGED <<thread_vars, replay, test_case, sidecars>>

NextOffload ==
    \/ \E p \in Paths : offload_close(p)
    \/ \E p \in Paths, i \in Positions : offload_sidecar_removed(p, i)
    \/ \E p \in Paths : offload_open(p)
    \/ \E t \in TestVectorEntryType, f \in Fields :
          \E v \in Originators(f) : offload_process(t, f, v)

SpecOffload == InitOffload /\ [][NextOffload]_vars

\* --------------------------------------------------------- concurrent threads
\* The calls of one thread, at the grain of the lock acquisitions of
\* storage.rs. The state of the one-thread specifications is left alone.
sequential_vars == <<poisoned, guards, pc, last, hist, writer, replay, caller_vars>>

\* A thread is between two calls.
BetweenCalls(t) == thread_pc[t] \in {"idle", "active"}

\* The slot a call of thread t works on.
SlotOf(t) == IF feature_tls THEN thread_slot[t] ELSE TEST_VEC_ENV

\* Mutex::lock on the slot mutex returns at once only when no thread holds it;
\* the thread-local slot has no mutex.
SlotMutexFree == feature_tls \/ mutex_owner = NoThread

thread_initialize_tv_case_from_file(t, tv_file_path, file_format, test_mode) ==
    /\ BetweenCalls(t)
    /\ LET loaded == LoadForMode(fs, tv_file_path, file_format, test_mode)
           call == [op |-> "initialize_tv_case_from_file", thread |-> t,
                    test_mode |-> test_mode, was_active |-> IsSome(SlotOf(t)),
                    had_handle |-> thread_pc[t] = "active", loaded_ok |-> loaded.ok,
                    how |-> "returned", result |-> None]
       IN
       IF ~loaded.ok
       THEN /\ thread_last' = [call EXCEPT !.result = loaded]
            /\ UNCHANGED <<TEST_VEC_ENV, GLOBAL_ENV_LOCK, thread_pc, thread_slot,
                           mutex_owner, lock_owner, slot_owner>>
       ELSE LET tv_env == TestVecEnv(tv_file_path, file_format, loaded.val, EmptyData, test_mode) IN
            IF feature_tls
            THEN LET r == initialize_with_tls(thread_slot[t], tv_env) IN
                 /\ thread_slot' = [thread_slot EXCEPT ![t] = r.slot]
                 /\ thread_pc' = [thread_pc EXCEPT ![t] = IF r.result.ok THEN "active" ELSE @]
                 /\ thread_last' = [call EXCEPT !.result = r.result]
                 /\ UNCHANGED <<TEST_VEC_ENV, GLOBAL_ENV_LOCK, mutex_owner, lock_owner, slot_owner>>
            ELSE \* storage_global: the slot mutex is taken, the slot replaced,
                 \* then GLOBAL_ENV_LOCK is waited for with the slot mutex held
                 /\ SlotMutexFree
                 /\ TEST_VEC_ENV' = Some(tv_env)
                 /\ slot_owner' = t
                 /\ UNCHANGED thread_slot
                 /\ IF GLOBAL_ENV_LOCK
                    THEN /\ mutex_owner' = t
                         /\ thread_pc' = [thread_pc EXCEPT ![t] = "lock_wait"]
                         /\ thread_last' = [call EXCEPT !.how = "blocked"]
                         /\ UNCHANGED <<GLOBAL_ENV_LOCK, lock_owner>>
                    ELSE /\ GLOBAL_ENV_LOCK' = TRUE
                         /\ lock_owner' = t
                         /\ thread_pc' = [thread_pc EXCEPT ![t] = "active"]
                         /\ thread_last' = [call EXCEPT !.result = Ok("TlsEnvGuard")]
                         /\ UNCHANGED mutex_owner
    /\ UNCHANGED <<feature_tls, fs>>
    /\ UNCHANGED sequential_vars

\* GLOBAL_ENV_LOCK.lock() of a waiting initialize_with returns once the lock
\* is free; the handle is built and the slot mutex given back.
thread_initialize_with_resume(t) ==
    /\ thread_pc[t] = "lock_wait"
    /\ ~GLOBAL_ENV_LOCK
    /\ GLOBAL_ENV_LOCK' = TRUE
    /\ lock_owner' = t
    /\ mutex_owner' = NoThread
    /\ thread_pc' = [thread_pc EXCEPT ![t] = "active"]
    /\ thread_last' = [op |-> "initialize_tv_case_from_file", thread |-> t,
                       test_mode |-> Unwrap(TEST_VEC_ENV).test_mode,
                       was_active |-> TRUE, had_handle |-> FALSE, loaded_ok |-> TRUE,
                       how |-> "resumed", result |-> Ok("TlsEnvGuard")]
    /\ UNCHANGED <<feature_tls, fs, TEST_VEC_ENV, thread_slot, slot_owner>>
    /\ UNCHANGED sequential_vars

\* The slots after a call of thread t left new_slot in the slot it works on.
thread_store_slot(t, new_slot) ==
    IF feature_tls
    THEN /\ thread_slot' = [thread_slot EXCEPT ![t] = new_slot]
         /\ UNCHANGED TEST_VEC_ENV
    ELSE /\ TEST_VEC_ENV' = new_slot
         /\ UNCHANGED thread_slot

thread_process_next_entry(t, entry_type, f, observed_value) ==
    /\ BetweenCalls(t)
    /\ SlotMutexFree
    /\ IsSome(SlotOf(t)) => Len(Unwrap(SlotOf(t)).recorded_tv_data) < MaxEntries
    /\ LET value == Serialize(f, observed_value)
           call == [op |-> "process_next_entry", thread |-> t, how |-> "returned"]
       IN
       IF ~IsSome(SlotOf(t))
       THEN /\ thread_last' = call @@ [result |-> Err("TestEnv not initialized.")]
            /\ UNCHANGED <<TEST_VEC_ENV, thread_slot>>
       ELSE LET tv_env == Unwrap(SlotOf(t))
                observed_entry == TestVectorEntry(entry_type, FieldDescription(f), FieldName(f),
                                                  value.val, Some(FieldCodeLocation(f)))
                loaded_entry == Get(tv_env.loaded_tv_data, Len(tv_env.recorded_tv_data))
                result == ModeResult(tv_env, loaded_entry, observed_entry, f)
            IN
            /\ thread_store_slot(t, Some(PushRecorded(tv_env, observed_entry, result)))
            /\ thread_last' = call @@ [result |-> result]
    /\ UNCHANGED <<feature_tls, fs, GLOBAL_ENV_LOCK, thread_pc, mutex_owner, lock_owner, slot_owner>>
    /\ UNCHANGED sequential_vars

thread_finalize_tv_case(t) ==
    /\ BetweenCalls(t)
    /\ SlotMutexFree
    /\ IF ~IsSome(SlotOf(t))
       THEN /\ thread_last' = [op |-> "finalize_tv_case", thread |-> t, how |-> "returned",
                               result |-> Err("TestEnv not initialized.")]
            /\ UNCHANGED fs
       ELSE /\ fs' = FinalizeFs(Unwrap(SlotOf(t)), fs)
            /\ thread_last' = [op |-> "finalize_tv_case", thread |-> t, how |-> "returned",
                               result |-> Ok(None)]
    /\ UNCHANGED <<feature_tls, TEST_VEC_ENV, GLOBAL_ENV_LOCK, thread_pc, thread_slot,
                   mutex_owner, lock_owner, slot_owner>>
    /\ UNCHANGED sequential_vars

\* TlsEnvGuard::drop of the handle of thread t. The global build gives the
\* coarse lock back first, then waits for the slot mutex and empties the slot.
thread_drop_guard(t) ==
    /\ thread_pc[t] = "active"
    /\ thread_last' = [op |-> "drop", thread |-> t, how |-> "returned"]
    /\ IF feature_tls
       THEN /\ thread_slot' = [thread_slot EXCEPT ![t] = drop_slot(@)]
            /\ thread_pc' = [thread_pc EXCEPT ![t] = "idle"]
            /\ UNCHANGED <<TEST_VEC_ENV, GLOBAL_ENV_LOCK, mutex_owner, lock_owner, slot_owner>>
       ELSE /\ GLOBAL_ENV_LOCK' = FALSE
            /\ lock_owner' = NoThread
            /\ UNCHANGED <<thread_slot, mutex_owner>>
            /\ IF SlotMutexFree
               THEN /\ TEST_VEC_ENV' = drop_slot(TEST_VEC_ENV)
                    /\ slot_owner' = NoThread
                    /\ thread_pc' = [thread_pc EXCEPT ![t] = "idle"]
               ELSE /\ thread_pc' = [thread_pc EXCEPT ![t] = "drop_wait"]
                    /\ UNCHANGED <<TEST_VEC_ENV, slot_owner>>
    /\ UNCHANGED <<feature_tls, fs>>
    /\ UNCHANGED sequential_vars

\* The slot mutex became free: the waiting drop empties the slot.
thread_drop_resume(t) ==
    /\ thread_pc[t] = "drop_wait"
    /\ SlotMutexFree
    /\ TEST_VEC_ENV' = drop_slot(TEST_VEC_ENV)
    /\ slot_owner' = NoThread
    /\ thread_pc' = [thread_pc EXCEPT ![t] = "idle"]
    /\ thread_last' = [op |-> "drop", thread |-> t, how |-> "resumed"]
    /\ UNCHANGED <<feature_tls, fs, GLOBAL_ENV_LOCK, thread_slot, mutex_owner, lock_owner>>
    /\ UNCHANGED sequential_vars

\* A call made while another thread holds the slot mutex waits inside
\* TEST_VEC_ENV.lock(). With two threads the mutex is held across a wait only
\* by an initialize_with waiting for the coarse lock.
ThreadCalls == {"initialize_tv_case_from_file", "process_next_entry", "finalize_tv_case"}
thread_slot_mutex_wait(t, op) ==
    /\ BetweenCalls(t)
    /\ ~SlotMutexFree
    /\ thread_pc' = [thread_pc EXCEPT ![t] = "slot_wait"]
    /\ thread_last' = [op |-> op, thread |-> t, how |-> "blocked"]
    /\ UNCHANGED <<feature_tls, fs, TEST_VEC_ENV, GLOBAL_ENV_LOCK, thread_slot, mutex_owner,
                   lock_owner, slot_owner>>
    /\ UNCHANGED sequential_vars

\* Every thread runs test bodies that observe Outputs of field a in the Json
\* file.
NextThreadsTls ==
    \E t \in Threads :
       \/ \E p \in Paths, m \in TestMode : thread_initialize_tv_case_from_file(t, p, "Json", m)
       \/ thread_process_next_entry(t, "Output", "a", ThreadValue(t))
       \/ thread_finalize_tv_case(t)
       \/ thread_drop_guard(t)

NextThreadsGlobal ==
    \E t \in Threads :
       \/ \E p \in Paths, m \in TestMode : thread_initialize_tv_case_from_file(t, p, "Json", m)
       \/ thread_initialize_with_resume(t)
       \/ thread_process_next_entry(t, "Output", "a", ThreadValue(t))
       \/ thread_finalize_tv_case(t)
       \/ thread_drop_guard(t)
       \/ thread_drop_resume(t)
       \/ \E op \in ThreadCalls : thread_slot_mutex_wait(t, op)

SpecThreadsTls == Init /\ [][NextThreadsTls]_vars

SpecThreadsGlobal == InitGlobal /\ [][NextThreadsGlobal]_vars

\* ------------------------------------------------------------ properties
\* The session in the slot, the entry the last call observed and the loaded
\* entry at its position.
LastProcessed == last.op = "process_next_entry" /\ last.was_active
LastInCheck == LastProcessed /\ last.test_mode = "Check"
LoadedAt(i) == Unwrap(TEST_VEC_ENV).loaded_tv_data[i + 1]
HasLoaded(i) == i < Len(Unwrap(TEST_VEC_ENV).loaded_tv_data)
IsMismatch(r) ==
    /\ ~r.ok
    /\ r.err \in {"Observed value does not match the loaded test vectors name",
                  "Observed value does not match the loaded test vectors type",
                  "Observed value does not match the loaded test vectors value"}

\* C1: in Check mode a Const observed at a position where the loaded entry is
\* a Const of the same name succeeds whatever value was observed, and returns
\* the value the recording run observed at that position, deserialized from
\* the loaded entry.
C1_ConstTolerance ==
    (/\ LastInCheck
     /\ last.entry_type = "Const"
     /\ HasLoaded(last.entry_index)
     /\ LoadedAt(last.entry_index).entry_type = "Const"
     /\ LoadedAt(last.entry_index).name = FieldName(last.field))
    => /\ last.result.ok
       /\ last.result.val = Some(writer[last.entry_index + 1].value)
       /\ Serialize(last.field, Unwrap(last.result.val)).val = LoadedAt(last.entry_index).value

\* A Const was replayed whose observed value differs from the recorded one.
C1_Witness ==
    /\ LastInCheck
    /\ last.entry_type = "Const"
    /\ HasLoaded(last.entry_index)
    /\ LoadedAt(last.entry_index).entry_type = "Const"
    /\ LoadedAt(last.entry_index).name = FieldName(last.field)
    /\ last.observed_value # writer[last.entry_index + 1].value
    /\ last.result.ok

\* C2: in Check mode an Output observed at a position where the loaded entry
\* is an Output of the same name fails with a mismatch error exactly when the
\* loaded value differs from the serialized observed value; when they are
\* equal the call succeeds and returns nothing.
C2_OutputStrictness ==
    (/\ LastInCheck
     /\ last.entry_type = "Output"
     /\ HasLoaded(last.entry_index)
     /\ LoadedAt(last.entry_index).entry_type = "Output"
     /\ LoadedAt(last.entry_index).name = FieldName(last.field))
    => LET differs == LoadedAt(last.entry_index).value # Serialize(last.field, last.observed_value).val
       IN /\ IsMismatch(last.result) <=> differs
          /\ ~differs => (last.result.ok /\ last.result.val = None)

\* An Output was rejected because its value changed since the recording.
C2_Witness ==
    /\ LastInCheck
    /\ last.entry_type = "Output"
    /\ HasLoaded(last.entry_index)
    /\ LoadedAt(last.entry_index).entry_type = "Output"
    /\ LoadedAt(last.entry_index).name = FieldName(last.field)
    /\ last.observed_value # writer[last.entry_index + 1].value
    /\ IsMismatch(last.result)

\* C3: in Check mode a call whose loaded entry has another name or another
\* kind than the observed one fails with a mismatch error, for an Output and
\* for a Const alike; no value is returned.
C3_DriftIsFatal ==
    (/\ LastInCheck
     /\ HasLoaded(last.entry_index)
     /\ \/ LoadedAt(last.entry_index).name # FieldName(last.field)
        \/ LoadedAt(last.entry_index).entry_type # last.entry_type)
    => /\ IsMismatch(last.result)
       /\ last.result.val = None

\* A Const was observed where a Const of another name was recorded.
C3_Witness ==
    /\ LastInCheck
    /\ last.entry_type = "Const"
    /\ HasLoaded(last.entry_index)
    /\ LoadedAt(last.entry_index).entry_type = "Const"
    /\ LoadedAt(last.entry_index).name # FieldName(last.field)
    /\ IsMismatch(last.result)

\* C4: in Check mode a call made when the session has already recorded at
\* least as many entries as were loaded returns an error and no value,
\* whatever the kind.
C4_MissingEntry ==
    (LastInCheck /\ ~HasLoaded(last.entry_index))
    => /\ ~last.result.ok
       /\ last.result.err = "Observed value does not exist in loaded test vector"
       /\ last.result.val = None

\* A Const was observed past the end of a loaded document that has entries.
C4_Witness ==
    /\ LastInCheck
    /\ last.entry_type = "Const"
    /\ last.entry_index >= 1
    /\ ~HasLoaded(last.entry_index)
    /\ ~last.result.ok

LoadError == "Error loading test vector. You may need to switch to init mode"

\* C5: an open made while a session is active returns an error and leaves the
\* number of handles as it was.
C5_SingleActiveSession ==
    (last.op = "initialize_tv_case_from_file" /\ last.was_active)
    => /\ last.how = "returned"
       /\ ~last.result.ok
       /\ guards = last.held

\* C6: a released handle leaves the slot empty and the coarse lock free,
\* whether or not finalize_tv_case ran; after a release process_next_entry
\* finds no session, and the next open returns, failing only when the file of
\* a Check session cannot be loaded.
C6_GuardedTeardown ==
    /\ [](last.op = "drop" => (TEST_VEC_ENV = None /\ ~GLOBAL_ENV_LOCK /\ guards = 0))
    /\ [][(hist.released /\ last'.op = "process_next_entry")
          => /\ ~last'.was_active
             /\ last'.how = "returned"
             /\ last'.result = Err("TestEnv not initialized.")]_vars
    /\ [][(hist.released /\ last'.op = "initialize_tv_case_from_file")
          => /\ last'.how = "returned"
             /\ last'.test_mode = "Init" => last'.result.ok
             /\ ~last'.result.ok => last'.result.err = LoadError
             /\ last'.result.ok => (guards' = 1 /\ IsSome(TEST_VEC_ENV'))]_vars

\* An Init session was released although finalize_tv_case never ran (no file
\* was created), and the slot is empty.
C6_Witness ==
    /\ last.op = "drop"
    /\ last.was_active
    /\ hist.test_mode = "Init"
    /\ \A p \in Paths : fs[p] = NoFile
    /\ TEST_VEC_ENV = None

\* C7: when an Init session that observed the sequence S is finalized and
\* released, the file holds exactly the entries of S in call order; and in a
\* Check session on that file, as long as the observed entries agree with S
\* on kind, name and Output value, every call passes and every Const call
\* returns the value S had at that position.
AgreesWith(o, w) ==
    /\ o.entry_type = w.entry_type
    /\ FieldName(o.field) = FieldName(w.field)
    /\ o.entry_type = "Output" => o.value = w.value
C7_FileHoldsRecording ==
    [][(/\ last.op = "finalize_tv_case" /\ last.was_active /\ last.result.ok
        /\ last.test_mode = "Init"
        /\ last'.op = "drop")
       => LET tv_env == Unwrap(TEST_VEC_ENV)
              loaded == load_from_file(fs', tv_env.tv_file_path, tv_env.file_format)
          IN loaded.ok /\ loaded.val = EntriesOfObs(hist.obs)]_vars
C7_ReplayPasses ==
    (IsSome(TEST_VEC_ENV) /\ Unwrap(TEST_VEC_ENV).test_mode = "Check")
    => \A j \in 1..Len(hist.obs) :
          (\A k \in 1..j : k <= Len(writer) /\ AgreesWith(hist.obs[k], writer[k]))
          => /\ hist.results[j].ok
             /\ hist.obs[j].entry_type = "Const" => hist.results[j].val = Some(writer[j].value)
             /\ hist.obs[j].entry_type = "Output" => hist.results[j].val = None
C7_RecordReplayRoundTrip == C7_FileHoldsRecording /\ []C7_ReplayPasses

\* C8: while the session last installed in the slot is a Check session, and
\* after its release, the file system is as it was when the session was
\* installed.
C8_CheckNeverWrites == hist.test_mode = "Check" => fs = hist.fs0

\* A Check session with a passing and a failing call was finalized.
C8_Witness ==
    /\ last.op = "finalize_tv_case"
    /\ last.was_active
    /\ last.test_mode = "Check"
    /\ \E j \in 1..Len(hist.results) : hist.results[j].ok
    /\ \E j \in 1..Len(hist.results) : ~hist.results[j].ok

\* C9: finalize_tv_case on an Init session stores the recorded document when
\* it differs from the loaded one or no file exists at the path, and then the
\* file is that document; otherwise the file system is left as it is.
C9_ChangeDetection ==
    [][(last'.op = "finalize_tv_case" /\ last'.was_active /\ last'.test_mode = "Init")
       => LET tv_env == Unwrap(TEST_VEC_ENV)
              differs == tv_env.recorded_tv_data # tv_env.loaded_tv_data
              missing == fs[tv_env.tv_file_path] = NoFile
          IN /\ last'.stored <=> (differs \/ missing)
             /\ last'.stored =>
                  fs' = [fs EXCEPT ![tv_env.tv_file_path] =
                            DocumentFile(tv_env.file_format, tv_env.recorded_tv_data)]
             /\ ~last'.stored => fs' = fs]_vars

\* An Init session whose recorded document equals the loaded one was
\* finalized over an existing file, which was not rewritten.
C9_Witness ==
    /\ last.op = "finalize_tv_case"
    /\ last.was_active
    /\ last.test_mode = "Init"
    /\ ~last.stored
    /\ Unwrap(TEST_VEC_ENV).recorded_tv_data = Unwrap(TEST_VEC_ENV).loaded_tv_data
    /\ is_file(fs, Unwrap(TEST_VEC_ENV).tv_file_path)

\* C10: the recorded document of the session in the slot is the sequence of
\* the entries observed by the calls made against it, in call order, whatever
\* the mode and the results; the position of the last call is the length
\* recorded had before it, and the loaded entry it met is the one there.
C10_RecordedMirrorsCalls ==
    IsSome(TEST_VEC_ENV)
    => /\ Unwrap(TEST_VEC_ENV).recorded_tv_data = EntriesOfObs(hist.obs)
       /\ Len(hist.results) = Len(hist.obs)
       /\ LastProcessed =>
            /\ last.entry_index = Len(Unwrap(TEST_VEC_ENV).recorded_tv_data) - 1
            /\ last.observed_entry = Unwrap(TEST_VEC_ENV).recorded_tv_data[last.entry_index + 1]
            /\ last.loaded_entry = Get(Unwrap(TEST_VEC_ENV).loaded_tv_data, last.entry_index)

\* A Check session recorded two entries, the second by a failing call.
C10_Witness ==
    /\ LastInCheck
    /\ ~last.result.ok
    /\ Len(Unwrap(TEST_VEC_ENV).recorded_tv_data) = 2
    /\ hist.results[1].ok

\* C11: in Init mode the result of process_next_entry depends on the observed
\* entry alone: an Output returns nothing, a Const returns the value its
\* serialized form deserializes to, and the only failure is a Const whose
\* serialized form does not deserialize.
RoundTrip(f, v) == Deserialize(f, Serialize(f, v).val)
C11_InitNeverCompares ==
    (LastProcessed /\ last.test_mode = "Init")
    => LET rt == RoundTrip(last.field, last.observed_value) IN
       /\ last.entry_type = "Output" => last.result = Ok(None)
       /\ (last.entry_type = "Const" /\ rt.ok) => last.result = Ok(Some(rt.val))
       /\ ~last.result.ok => (last.entry_type = "Const" /\ ~rt.ok)

\* An Init session opened over an existing file returned the observed value
\* of a Const at a position past the first.
C11_Witness ==
    /\ LastProcessed
    /\ last.test_mode = "Init"
    /\ last.entry_type = "Const"
    /\ last.entry_index >= 1
    /\ is_file(fs, Unwrap(TEST_VEC_ENV).tv_file_path)
    /\ last.result = Ok(Some(last.observed_value))

\* C12: in Init mode a Const whose just-serialized value the deserializer of
\* its field rejects makes the call fail with the round-trip error and return
\* no value; an Output of such a field passes and returns nothing.
RoundTripError == "Failed to deserialize constant value right after serializing it"
C12_RoundTripEnforced ==
    (/\ LastProcessed
     /\ last.test_mode = "Init"
     /\ ~RoundTrip(last.field, last.observed_value).ok)
    => /\ last.entry_type = "Const" => last.result = Err(RoundTripError)
       /\ last.entry_type = "Output" => last.result = Ok(None)

\* An Init session rejected a Const of the derived field after it had let an
\* Output of that field pass.
C12_Witness ==
    /\ LastProcessed
    /\ last.test_mode = "Init"
    /\ last.entry_type = "Const"
    /\ last.field \in DerivedFields
    /\ last.result = Err(RoundTripError)
    /\ last.entry_index >= 1
    /\ hist.obs[1].entry_type = "Output"
    /\ hist.results[1] = Ok(None)

\* C13: an open in Check mode whose file is missing or does not parse in the
\* given format returns the load error and changes nothing: the slot, the
\* handles and the locks are as before the call. An open whose file loads
\* never returns the load error.
AlreadyInitialized == "Initialized a new test vector while a previous test vector is already initialized"
C13_CheckOpenFailsOnBadFile ==
    [][(last'.op = "initialize_tv_case_from_file" /\ last'.test_mode = "Check")
       => IF load_from_file(fs, last'.tv_file_path, last'.file_format).ok
          THEN last'.how # "returned" \/ last'.result.ok \/ last'.result.err # LoadError
          ELSE /\ last'.how = "returned"
               /\ last'.result = Err(LoadError)
               /\ TEST_VEC_ENV' = TEST_VEC_ENV
               /\ guards' = guards
               /\ GLOBAL_ENV_LOCK' = GLOBAL_ENV_LOCK
               /\ poisoned' = poisoned]_vars

\* A Check open in Json format failed on a file holding a Yaml document while
\* a session was active, and the session is still in the slot.
C13_Witness ==
    /\ last.op = "initialize_tv_case_from_file"
    /\ last.test_mode = "Check"
    /\ last.file_format = "Json"
    /\ fs[last.tv_file_path].kind = "document"
    /\ last.result = Err(LoadError)
    /\ last.was_active
    /\ IsSome(TEST_VEC_ENV)
    /\ guards = 1

\* C14: an open in Init mode does not look at the file: it fails only when a
\* session is already active, never with the load error, and the session it
\* puts in the slot has an empty loaded and an empty recorded document.
C14_InitOpenUnconditional ==
    (last.op = "initialize_tv_case_from_file" /\ last.test_mode = "Init")
    => /\ last.how = "returned"
       /\ ~last.was_active => last.result.ok
       /\ ~last.result.ok => last.result.err = AlreadyInitialized
       /\ TEST_VEC_ENV = Some(TestVecEnv(last.tv_file_path, last.file_format,
                                         EmptyData, EmptyData, "Init"))

\* An Init open succeeded over a file that holds a document with entries.
C14_Witness ==
    /\ last.op = "initialize_tv_case_from_file"
    /\ last.test_mode = "Init"
    /\ last.result.ok
    /\ fs[last.tv_file_path].kind = "document"
    /\ Len(fs[last.tv_file_path].text) >= 1
    /\ Unwrap(TEST_VEC_ENV).loaded_tv_data = EmptyData

\* C15: in the build with the process-wide slot, while a thread holds a handle
\* the slot holds the session that thread opened, so that its calls work on
\* it; no open of another thread has written the slot since.
C15_SessionsSerialized ==
    \A t \in Threads :
       thread_pc[t] = "active" => (IsSome(TEST_VEC_ENV) /\ slot_owner = t)

\* C16: with thread-local slots an open succeeds exactly when its file loads
\* and the calling thread has no session, whatever the other threads hold; a
\* second open on a thread that has a session returns an error and leaves it
\* with one handle; a step changes no slot but that of the calling thread.
C16_ThreadsIndependent ==
    /\ [](thread_last.op = "initialize_tv_case_from_file"
          => /\ thread_last.result.ok <=> (thread_last.loaded_ok /\ ~thread_last.was_active)
             /\ (thread_last.loaded_ok /\ thread_last.was_active)
                => thread_last.result = Err(AlreadyInitialized))
    /\ [](\A t \in Threads : thread_pc[t] = "active" <=> IsSome(thread_slot[t]))
    /\ [][\A t \in Threads : thread_slot'[t] # thread_slot[t] => thread_last'.thread = t]_vars

\* Both threads hold a session at once, each with its own recorded entries,
\* one in Init and one in Check mode.
C16_Witness ==
    /\ \A t \in Threads :
          /\ IsSome(thread_slot[t])
          /\ Len(Unwrap(thread_slot[t]).recorded_tv_data) >= 1
    /\ Unwrap(thread_slot["t1"]).recorded_tv_data # Unwrap(thread_slot["t2"]).recorded_tv_data
    /\ Unwrap(thread_slot["t1"]).test_mode # Unwrap(thread_slot["t2"]).test_mode

\* O is L with one new entry put in before an existing entry of L.
IsInsertion(O, L) ==
    /\ Len(O) = Len(L) + 1
    /\ \E i \in 1..Len(L) :
          /\ \A j \in 1..(i - 1) : O[j] = L[j]
          /\ \A j \in (i + 1)..Len(O) : O[j] = L[j - 1]
MissingEntry == "Observed value does not exist in loaded test vector"

\* C17: a Check session that has processed a sequence obtained from its
\* loaded document by inserting one entry before an existing one has returned
\* at least one mismatch or missing-entry error.
C17_InsertionDetected ==
    (/\ IsSome(TEST_VEC_ENV)
     /\ Unwrap(TEST_VEC_ENV).test_mode = "Check"
     /\ IsInsertion(Unwrap(TEST_VEC_ENV).recorded_tv_data, Unwrap(TEST_VEC_ENV).loaded_tv_data))
    => \E j \in 1..Len(hist.results) :
          IsMismatch(hist.results[j]) \/ hist.results[j] = Err(MissingEntry)

\* The inserted entry passed at the first position (a Const of the same name
\* as the entry it displaced) and the shift was caught by the last call only.
C17_Witness ==
    /\ IsSome(TEST_VEC_ENV)
    /\ Unwrap(TEST_VEC_ENV).test_mode = "Check"
    /\ IsInsertion(Unwrap(TEST_VEC_ENV).recorded_tv_data, Unwrap(TEST_VEC_ENV).loaded_tv_data)
    /\ Unwrap(TEST_VEC_ENV).recorded_tv_data[1] # Unwrap(TEST_VEC_ENV).loaded_tv_data[1]
    /\ hist.results[1].ok
    /\ \A j \in 1..(Len(hist.results) - 1) : hist.results[j].ok
    /\ hist.results[Len(hist.results)] = Err(MissingEntry)

\* O is L with one or more entries taken out, or L in another order.
IsRemoval(O, L) ==
    /\ Len(O) < Len(L)
    /\ \E keep \in [1..Len(O) -> 1..Len(L)] :
          /\ \A j \in 1..Len(O) : O[j] = L[keep[j]]
          /\ \A j, k \in 1..Len(O) : j < k => keep[j] < keep[k]
IsReordering(O, L) ==
    /\ Len(O) = Len(L)
    /\ O # L
    /\ \E perm \in [1..Len(L) -> 1..Len(L)] :
          /\ \A j, k \in 1..Len(L) : j # k => perm[j] # perm[k]
          /\ \A j \in 1..Len(L) : O[j] = L[perm[j]]

\* C18: when finalize_tv_case has run on a Check session whose observed
\* sequence is its loaded document with calls removed or reordered, a
\* process_next_entry call or finalize_tv_case itself has returned an error.
C18_RemovalDetected ==
    (/\ last.op = "finalize_tv_case"
     /\ last.was_active
     /\ last.test_mode = "Check"
     /\ \/ IsRemoval(Unwrap(TEST_VEC_ENV).recorded_tv_data, Unwrap(TEST_VEC_ENV).loaded_tv_data)
        \/ IsReordering(Unwrap(TEST_VEC_ENV).recorded_tv_data, Unwrap(TEST_VEC_ENV).loaded_tv_data))
    => \/ ~last.result.ok
       \/ \E j \in 1..Len(hist.results) : ~hist.results[j].ok

\* C19: among the calls made against the session in the slot, none that
\* follows a call that returned an error has returned success.
C19_FirstErrorEnds ==
    IsSome(TEST_VEC_ENV)
    => \A j, k \in 1..Len(hist.results) :
          (j < k /\ ~hist.results[j].ok) => ~hist.results[k].ok

\* C20: in the second of two Check runs of the same script against the same
\* recording every call returns what it returned in the first run, and the
\* file is never written by either run.
C20_IdempotentReplay ==
    /\ replay.run > 0 => fs = replay.fs0
    /\ replay.run = 2 =>
          \A j \in 1..Len(hist.results) : hist.results[j] = replay.first[j]
    /\ replay.run = 3 => Len(replay.first) = Len(replay.script)

\* The second run has made both calls of a script whose first call passes and
\* whose second fails.
C20_Witness ==
    /\ replay.run = 2
    /\ Len(replay.script) = 2
    /\ Len(hist.results) = 2
    /\ hist.results[1].ok
    /\ ~hist.results[2].ok
    /\ last.op = "finalize_tv_case"

\* C21: TestMode::from_environment gives Init when TEST_MODE is "init" and
\* Check when it is "check", when it has any other value and when it is not
\* set.
C21_ModeFromEnvironment ==
    (test_case.stage # "none" /\ test_case.test_mode # "unset" /\ test_case.mode_arg = None)
    => test_case.test_mode = (IF test_case.env = Some("init") THEN "Init" ELSE "Check")

\* C25: the function generated by test_vec_case carries every attribute the
\* user put on the annotated function, so a body that panics under a
\* forwarded should_panic is counted as a passing test.
C25_AttributesForwarded ==
    /\ (test_case.stage \notin {"none", "start"})
       => test_case.attrs \subseteq test_case.generated
    /\ (test_case.stage = "done" /\ test_case.attrs = {"should_panic"} /\ test_case.panicked)
       => test_case.outcome = "passed"

\* C24: with TestVectorNOP, expose_value returns the observed value
\* unchanged, and expose_mut_value and check_value do nothing; each of them
\* returns whether or not a session is active, and leaves the session (its
\* recorded document included), the files and the handles as they are.
NopOps ==
    {"TestVectorNOP::expose_value", "TestVectorNOP::expose_mut_value",
     "TestVectorNOP::check_value"}
C24_NopPassThrough ==
    [][(last'.op \in NopOps /\ last' # last)
       => /\ last'.how = "returned"
          /\ last'.returned = last'.observed_value
          /\ last'.was_active = IsSome(TEST_VEC_ENV)
          /\ TEST_VEC_ENV' = TEST_VEC_ENV
          /\ fs' = fs
          /\ guards' = guards
          /\ pc' = pc
          /\ hist' = hist]_vars

\* A Check session whose loaded Const is 42: TestVectorNOP::expose_value was
\* given 99 and returned 99, before any entry was recorded.
C24_Witness ==
    /\ last.op = "TestVectorNOP::expose_value"
    /\ last.returned = 99
    /\ IsSome(TEST_VEC_ENV)
    /\ Unwrap(TEST_VEC_ENV).test_mode = "Check"
    /\ Len(Unwrap(TEST_VEC_ENV).loaded_tv_data) > 0
    /\ Unwrap(TEST_VEC_ENV).loaded_tv_data[1].value = custom_serialize_fn(42).val
    /\ Unwrap(TEST_VEC_ENV).recorded_tv_data = EmptyData

C26_DeadlockFreedom ==
    \A a \in Threads : \A b \in Threads \ {a} :
       ~(/\ thread_pc[a] = "slot_wait"
         /\ lock_owner = a
         /\ mutex_owner = b
         /\ thread_pc[b] = "lock_wait")

\* C27: in the global build the session installed by the open of a thread is
\* in the slot when that open returns, and the slot is not emptied while the
\* thread keeps its handle, however the release of the previous handle is
\* interleaved.
C27_ReleaseClearsOwnSession ==
    [][\A t \in Threads :
          /\ (thread_pc[t] # "active" /\ thread_pc'[t] = "active")
             => (IsSome(TEST_VEC_ENV') /\ slot_owner' = t)
          /\ (thread_pc[t] = "active" /\ slot_owner = t /\ thread_pc'[t] = "active")
             => IsSome(TEST_VEC_ENV')]_vars

\* C28: an open that fails because a session is already active changes
\* nothing: the active session keeps its path, format, mode, loaded document
\* and recorded document, so the next process_next_entry continues at the
\* same position against the same loaded document.
C28_RejectedOpenChangesNothing ==
    [][(/\ last'.op = "initialize_tv_case_from_file"
        /\ last'.how = "returned"
        /\ ~last'.result.ok
        /\ last'.result.err = AlreadyInitialized)
       => (TEST_VEC_ENV' = TEST_VEC_ENV /\ guards' = guards /\ fs' = fs)]_vars

\* C30: after finalize_tv_case has returned Ok in Init mode, the document
\* stored at the path of the session is its recorded document, also when the
\* session observed no entry and a file with entries was already there.
C30_PersistedEqualsRecording ==
    (/\ last.op = "finalize_tv_case"
     /\ last.was_active
     /\ last.how = "returned"
     /\ last.result.ok
     /\ last.test_mode = "Init")
    => LET tv_env == Unwrap(TEST_VEC_ENV) IN
       load_from_file(fs, tv_env.tv_file_path, tv_env.file_format)
          = Ok(tv_env.recorded_tv_data)

\* C29: in the global build, when the caller-supplied deserializer panics
\* inside process_next_entry, the release of the handle still empties the
\* slot, and an open that follows a release on the unwinding path succeeds
\* (unless the file of a Check session does not load).
C29_TeardownSurvivesPanic ==
    /\ [][(last.op = "process_next_entry" /\ last.how = "panicked" /\ last'.op = "drop")
          => (TEST_VEC_ENV' = None /\ pc' = "running" /\ guards' = 0)]_vars
    /\ [][(/\ last.op = "drop"
           /\ last.unwinding
           /\ last'.op = "initialize_tv_case_from_file"
           /\ LoadForMode(fs, last'.tv_file_path, last'.file_format, last'.test_mode).ok)
          => (last'.how = "returned" /\ last'.result.ok /\ IsSome(TEST_VEC_ENV'))]_vars

\* C31: while a session is in the slot and its handle is alive, a call of
\* process_next_entry or finalize_tv_case leaves the session in the slot with
\* the same path, format, mode and loaded document; process_next_entry only
\* appends the observed entry to recorded (also when the deserializer panics),
\* and finalize_tv_case changes no field of the session.
C31_LoadedFixed ==
    [][(/\ IsSome(TEST_VEC_ENV)
        /\ guards > 0
        /\ last'.op \in {"process_next_entry", "finalize_tv_case"})
       => /\ IsSome(TEST_VEC_ENV')
          /\ LET before == Unwrap(TEST_VEC_ENV)
                 after == Unwrap(TEST_VEC_ENV')
             IN /\ after.loaded_tv_data = before.loaded_tv_data
                /\ after.test_mode = before.test_mode
                /\ after.tv_file_path = before.tv_file_path
                /\ after.file_format = before.file_format
                /\ last'.op = "finalize_tv_case" => after = before
                /\ last'.op = "process_next_entry" =>
                     after.recorded_tv_data
                        = Append(before.recorded_tv_data, last'.observed_entry)]_vars

\* A Check session with one loaded entry was finalized after two calls, the
\* first of which passed: its loaded document still has its one entry.
C31_Witness ==
    /\ last.op = "finalize_tv_case"
    /\ last.was_active
    /\ last.test_mode = "Check"
    /\ Len(Unwrap(TEST_VEC_ENV).loaded_tv_data) = 1
    /\ Len(Unwrap(TEST_VEC_ENV).recorded_tv_data) = 2
    /\ hist.results[1].ok

\* C32: in a Check session none of whose calls has returned a missing-entry
\* or a mismatch error, recorded is no longer than loaded, and at every
\* recorded position the recorded and the loaded entry have the same name and
\* the same kind, and the same value when the kind is Output.
C32_CheckPrefixAgreement ==
    (/\ IsSome(TEST_VEC_ENV)
     /\ Unwrap(TEST_VEC_ENV).test_mode = "Check"
     /\ \A j \in 1..Len(hist.results) :
           ~IsMismatch(hist.results[j]) /\ hist.results[j] # Err(MissingEntry))
    => LET recorded == Unwrap(TEST_VEC_ENV).recorded_tv_data
           loaded == Unwrap(TEST_VEC_ENV).loaded_tv_data
       IN /\ Len(recorded) <= Len(loaded)
          /\ \A j \in 1..Len(recorded) :
                /\ recorded[j].name = loaded[j].name
                /\ recorded[j].entry_type = loaded[j].entry_type
                /\ recorded[j].entry_type = "Output" => recorded[j].value = loaded[j].value

\* A Check session has recorded an Output and a Const without an error, and
\* the value of the recorded Const is not the loaded one.
C32_Witness ==
    /\ IsSome(TEST_VEC_ENV)
    /\ Unwrap(TEST_VEC_ENV).test_mode = "Check"
    /\ Len(Unwrap(TEST_VEC_ENV).recorded_tv_data) = 2
    /\ \A j \in 1..2 : hist.results[j].ok
    /\ Unwrap(TEST_VEC_ENV).recorded_tv_data[1].entry_type = "Output"
    /\ Unwrap(TEST_VEC_ENV).recorded_tv_data[2].entry_type = "Const"
    /\ Unwrap(TEST_VEC_ENV).recorded_tv_data[2].value
          # Unwrap(TEST_VEC_ENV).loaded_tv_data[2].value

C34_MetadataNotCompared ==
    (LastInCheck /\ HasLoaded(last.entry_index))
    => LET l == LoadedAt(last.entry_index)
           o == last.observed_entry
           same == [l EXCEPT !.description = o.description,
                             !.code_location = o.code_location]
       IN /\ last.result = CheckModeResult(Some(same), o, last.field)
          /\ (/\ l.name = o.name
              /\ l.entry_type = o.entry_type
              /\ o.entry_type = "Output" => l.value = o.value)
             => last.result.ok

\* A Check session passed a Const whose loaded entry has another description
\* and then an Output whose loaded entry has another code location.
C34_Witness ==
    /\ LastInCheck
    /\ last.entry_index = 1
    /\ last.entry_type = "Output"
    /\ last.result.ok
    /\ hist.results[1].ok
    /\ Unwrap(TEST_VEC_ENV).recorded_tv_data[1].entry_type = "Const"
    /\ Unwrap(TEST_VEC_ENV).recorded_tv_data[1].description
          # Unwrap(TEST_VEC_ENV).loaded_tv_data[1].description
    /\ Unwrap(TEST_VEC_ENV).recorded_tv_data[2].code_location
          # Unwrap(TEST_VEC_ENV).loaded_tv_data[2].code_location

\* C35: in Check mode a Const observed where the loaded entry is a Const of
\* the same name, and whose loaded value the deserializer of the field
\* rejects, makes the call fail with the error of the deserializer; no value
\* is returned, the observed one included.
C35_FailedInjectionIsError ==
    (/\ LastInCheck
     /\ last.entry_type = "Const"
     /\ HasLoaded(last.entry_index)
     /\ LoadedAt(last.entry_index).entry_type = "Const"
     /\ LoadedAt(last.entry_index).name = FieldName(last.field)
     /\ ~Deserialize(last.field, LoadedAt(last.entry_index).value).ok)
    => /\ ~last.result.ok
       /\ last.result.val = None
       /\ last.result.err = Deserialize(last.field, LoadedAt(last.entry_index).value).err
       /\ ~IsMismatch(last.result)

\* The second call of a Check session observed 99 for a Const of the derived
\* field where the file holds the string "42", which the default u64
\* deserializer rejects: the call failed with its error.
C35_Witness ==
    /\ LastInCheck
    /\ last.entry_type = "Const"
    /\ last.field \in DerivedFields
    /\ last.observed_value = 99
    /\ last.entry_index = 1
    /\ HasLoaded(1)
    /\ LoadedAt(1).entry_type = "Const"
    /\ LoadedAt(1).value = JsonString("42")
    /\ last.result = Err("invalid type")

NotInitialized == "TestEnv not initialized."

SerializerFailed(call) ==
    /\ call.op = "process_next_entry"
    /\ "observed_value" \in DOMAIN call
    /\ ~Serialize(call.field, call.observed_value).ok

\* C37: a call of process_next_entry whose serializer fails on the observed
\* value returns the error of the serializer and leaves the session as it is:
\* nothing is appended to recorded, no file is written, and the next call
\* that reaches the session has the position the failed call would have had.
C37_SerializerFailureLeavesSession ==
    /\ [][SerializerFailed(last')
          => /\ last'.how = "returned"
             /\ last'.result = Serialize(last'.field, last'.observed_value)
             /\ TEST_VEC_ENV' = TEST_VEC_ENV
             /\ fs' = fs
             /\ guards' = guards
             /\ pc' = pc
             /\ hist' = hist]_vars
    /\ [][(SerializerFailed(last) /\ last'.op = "process_next_entry" /\ last'.was_active)
          => last'.entry_index = Len(Unwrap(TEST_VEC_ENV).recorded_tv_data)]_vars

\* A Check session that has recorded one entry: the serializer rejected the
\* Const 99 observed next, and recorded still has one entry.
C37_Witness ==
    /\ SerializerFailed(last)
    /\ last.entry_type = "Const"
    /\ last.result = Err("value out of range")
    /\ IsSome(TEST_VEC_ENV)
    /\ Unwrap(TEST_VEC_ENV).test_mode = "Check"
    /\ Len(Unwrap(TEST_VEC_ENV).recorded_tv_data) = 1
    /\ Len(hist.results) = 1

\* A step of the generated function that is a call of the engine.
CaseCalls(op) == test_case' = test_case /\ last'.op = op

\* The body of the wrapped function ends in a panic.
BodyPanics ==
    \/ test_case.body = "panics"
    \/ last.op = "process_next_entry" /\ ~last.result.ok

====
